---- MODULE Spec2Model ----
(***************************************************************************)
(* Teacrush: a Bubble Tea wizard that collects a job configuration and a   *)
(* pipeline (startEncoding) that drives ffprobe/ffmpeg subprocesses.       *)
(*                                                                         *)
(* Modelled from src/unnamed/part_003 (the newest revision of main.go).    *)
(*                                                                         *)
(* Conventions                                                             *)
(*  - A Go string that the code parses is a sequence of one-character      *)
(*    strings, so that parsing is computed and not assumed.                *)
(*  - A Go float64 is the IEEE 754 binary64 value itself: sign, odd        *)
(*    mantissa and binary exponent, or a zero, an infinity or NaN.  Every  *)
(*    operation rounds its exact result to the nearest float64, ties to    *)
(*    the even one, so a value of the model is the value of the program.   *)
(*  - A Go int (int64 on the builds modelled) is a sign and a magnitude,   *)
(*    and its arithmetic wraps at 64 bits.  The integers of TLC have 32    *)
(*    bits, so mantissas and magnitudes are numbers of any size kept as    *)
(*    digit sequences.                                                     *)
(*  - An ffmpeg argument vector is a record of its options (Cmd).          *)
(***************************************************************************)
EXTENDS Integers, Sequences, FiniteSets, TLC

(***************************************************************************)
(* Bounds of the model.                                                    *)
(***************************************************************************)
\* progress-stream lines read from one subprocess
MaxLines == 1


(***************************************************************************)
(* Natural numbers of any size: the sequence of the digits in base 2^15,   *)
(* lowest digit first, without high zero digits; zero is <<>>.  The        *)
(* integers of TLC have 32 bits, and a product of two digits fits.         *)
(***************************************************************************)
Base ==
  2^15

Pow2Tab ==
  <<1, 2, 4, 8, 16, 32, 64, 128, 256, 512, 1024, 2048, 4096, 8192, 16384, 32768>>

\* 2^k for k in 0..15
Pow2(k) ==
  Pow2Tab[k + 1]

Max(a, b) ==
  IF a < b THEN b ELSE a

Min(a, b) ==
  IF a < b THEN a ELSE b

RECURSIVE BNorm(_)
BNorm(a) ==
  IF a # <<>> /\ a[Len(a)] = 0 THEN BNorm(SubSeq(a, 1, Len(a) - 1)) ELSE a

\* the number n >= 0 of TLC
RECURSIVE BNat(_)
BNat(n) ==
  IF n = 0 THEN <<>> ELSE <<n % Base>> \o BNat(n \div Base)

BLimb(a, i) ==
  IF i <= Len(a) THEN a[i] ELSE 0

RECURSIVE BAddFrom(_, _, _, _)
BAddFrom(a, b, i, c) ==
  IF i > Len(a) /\ i > Len(b) THEN (IF c = 0 THEN <<>> ELSE <<c>>)
  ELSE <<(BLimb(a, i) + BLimb(b, i) + c) % Base>>
         \o BAddFrom(a, b, i + 1, (BLimb(a, i) + BLimb(b, i) + c) \div Base)

BAdd(a, b) ==
  BAddFrom(a, b, 1, 0)

\* the digits from i on of a - b - c, for a >= b
RECURSIVE BSubFrom(_, _, _, _)
BSubFrom(a, b, i, c) ==
  IF i > Len(a) THEN <<>>
  ELSE <<(a[i] - BLimb(b, i) - c + Base) % Base>>
         \o BSubFrom(a, b, i + 1, IF a[i] - BLimb(b, i) - c < 0 THEN 1 ELSE 0)

BSub(a, b) ==
  BNorm(BSubFrom(a, b, 1, 0))

RECURSIVE BCmpAt(_, _, _)
BCmpAt(a, b, i) ==
  IF i = 0 THEN 0
  ELSE IF a[i] # b[i] THEN (IF a[i] < b[i] THEN -1 ELSE 1)
  ELSE BCmpAt(a, b, i - 1)

\* -1, 0 or 1 as a is below, equal to or above b
BCmp(a, b) ==
  IF Len(a) # Len(b) THEN (IF Len(a) < Len(b) THEN -1 ELSE 1) ELSE BCmpAt(a, b, Len(a))

RECURSIVE BMulSmallFrom(_, _, _, _)
BMulSmallFrom(a, k, i, c) ==
  IF i > Len(a) THEN (IF c = 0 THEN <<>> ELSE <<c>>)
  ELSE <<(a[i] * k + c) % Base>> \o BMulSmallFrom(a, k, i + 1, (a[i] * k + c) \div Base)

\* a * k for 0 <= k < 2^15
BMulSmall(a, k) ==
  IF k = 0 THEN <<>> ELSE BMulSmallFrom(a, k, 1, 0)

\* a * 2^(15 k)
BShiftLimbs(a, k) ==
  IF a = <<>> THEN <<>> ELSE [i \in 1..k |-> 0] \o a

RECURSIVE BMul(_, _)
BMul(a, b) ==
  IF a = <<>> \/ b = <<>> THEN <<>>
  ELSE BAdd(BMulSmall(a, b[1]), BShiftLimbs(BMul(a, Tail(b)), 1))

\* one more digit of a quotient, above those of rec
DivStep(rec, qi) ==
  [q |-> rec.q \o <<qi>>, r |-> rec.r]

\* the digits i down to 1 of a divided by k, r the remainder so far
RECURSIVE BDivSmallFrom(_, _, _, _)
BDivSmallFrom(a, k, i, r) ==
  IF i = 0 THEN [q |-> <<>>, r |-> r]
  ELSE IF r * Base + a[i] < k THEN DivStep(BDivSmallFrom(a, k, i - 1, r * Base + a[i]), 0)
  ELSE DivStep(BDivSmallFrom(a, k, i - 1, (r * Base + a[i]) % k), (r * Base + a[i]) \div k)

NormQ(rec) ==
  [q |-> BNorm(rec.q), r |-> rec.r]

\* quotient q and remainder r (an integer of TLC) of a by k, for
\* 1 <= k < 2^15
BDivSmall(a, k) ==
  NormQ(BDivSmallFrom(a, k, Len(a), 0))

\* the number of binary digits of 0 < x < 2^15
SmallBitLen(x) ==
  CHOOSE k \in 1..15 : Pow2(k - 1) <= x /\ x < Pow2(k)

BBitLen(a) ==
  IF a = <<>> THEN 0 ELSE 15 * (Len(a) - 1) + SmallBitLen(a[Len(a)])

\* a * 2^n
BShl(a, n) ==
  BShiftLimbs(BMulSmall(a, Pow2(n % 15)), n \div 15)

\* a div 2^n
BShr(a, n) ==
  IF n \div 15 >= Len(a) THEN <<>>
  ELSE BDivSmall(SubSeq(a, n \div 15 + 1, Len(a)), Pow2(n % 15)).q

\* the binary digit i of a, the lowest being digit 0
BBit(a, i) ==
  (BLimb(a, i \div 15 + 1) \div Pow2(i % 15)) % 2

\* a binary digit of a below digit i is set
BAnyBelow(a, i) ==
  \/ \E j \in 1..Min(i \div 15, Len(a)) : a[j] # 0
  \/ BLimb(a, i \div 15 + 1) % Pow2(i % 15) # 0

\* the number of zero binary digits at the low end of a # 0
SmallTrailingZeros(x) ==
  CHOOSE k \in 0..14 : x % Pow2(k + 1) = Pow2(k)

FirstLimb(a) ==
  CHOOSE j \in 1..Len(a) : a[j] # 0 /\ \A i \in 1..(j - 1) : a[i] = 0

\* j: the lowest digit of a that is not zero
TrailingZerosAt(a, j) ==
  15 * (j - 1) + SmallTrailingZeros(a[j])

BTrailingZeros(a) ==
  TrailingZerosAt(a, FirstLimb(a))

\* the quotient digit of r by b is at most qhat and at least qhat - 2
RECURSIVE QFix(_, _, _)
QFix(r, b, qhat) ==
  IF BCmp(BMulSmall(b, qhat), r) > 0 THEN QFix(r, b, qhat - 1) ELSE qhat

\* the estimate of the quotient digit of r < b * 2^15 from the two highest
\* digits of r and the highest of b, which is at least 2^14
QHat(r, b) ==
  Min(Base - 1, (BLimb(r, Len(b) + 1) * Base + BLimb(r, Len(b))) \div b[Len(b)])

RECURSIVE BDivFrom(_, _, _, _)
BDivDigit(a, b, i, cur, qd) ==
  DivStep(BDivFrom(a, b, i - 1, BSub(cur, BMulSmall(b, qd))), qd)

\* cur: the remainder so far with digit i of a below it
BDivCur(a, b, i, cur) ==
  IF BCmp(cur, b) < 0 THEN DivStep(BDivFrom(a, b, i - 1, cur), 0)
  ELSE BDivDigit(a, b, i, cur, QFix(cur, b, QHat(cur, b)))

\* the digits i down to 1 of a divided by b, r the remainder so far
BDivFrom(a, b, i, r) ==
  IF i = 0 THEN [q |-> <<>>, r |-> r]
  ELSE BDivCur(a, b, i, BNorm(<<a[i]>> \o r))

\* a by b, both scaled to a highest digit of b of at least 2^14: the
\* digits of a above the length of b are the first remainder
BDivScaled(a, b) ==
  IF Len(a) < Len(b) THEN [q |-> <<>>, r |-> a]
  ELSE BDivFrom(a, b, Len(a) - Len(b) + 1, BNorm(SubSeq(a, Len(a) - Len(b) + 2, Len(a))))

\* rec: the quotient and the remainder; zero is the remainder of a
\* multiple of b
Quotient(rec, zero) ==
  [q |-> BNorm(rec.q), exact |-> rec.r = zero]

\* a and b times 2^sh
BDivShifted(a, b, sh) ==
  Quotient(BDivScaled(BShl(a, sh), BShl(b, sh)), <<>>)

\* the quotient q of a by b # 0 and whether the remainder is zero
BDiv(a, b) ==
  IF Len(b) = 1 THEN Quotient(BDivSmall(a, b[1]), 0)
  ELSE BDivShifted(a, b, 15 - SmallBitLen(b[Len(b)]))

\* 5^24
Pow5x24 ==
  BMul(BMul(<<15625>>, <<15625>>), BMul(<<15625>>, <<15625>>))

\* 5^n
RECURSIVE BPow5(_)
BPow5(n) ==
  IF n < 7 THEN <<<<1, 5, 25, 125, 625, 3125, 15625>>[n + 1]>>
  ELSE IF n < 24 THEN BMulSmall(BPow5(n - 6), 15625)
  ELSE BMul(BPow5(n - 24), Pow5x24)

(***************************************************************************)
(* float64: the finite value (-1)^neg * m * 2^e with an odd m < 2^53 and   *)
(* -1074 <= e, the zeros (m = 0, e = 0) of either sign, the infinities and *)
(* NaN.  A value has one representation, and every operation gives the     *)
(* float64 nearest to its exact result, ties to the even one, as IEEE 754  *)
(* has it.                                                                 *)
(***************************************************************************)
Fin(neg, m, e) ==
  [cls |-> "fin", neg |-> neg, m |-> m, e |-> e]

NaN ==
  [cls |-> "nan", neg |-> FALSE, m |-> <<>>, e |-> 0]

Inf(neg) ==
  [cls |-> "inf", neg |-> neg, m |-> <<>>, e |-> 0]

Zero(neg) ==
  Fin(neg, <<>>, 0)

IsNaN(f) ==
  f.cls = "nan"

IsInf(f) ==
  f.cls = "inf"

IsZero(f) ==
  f.cls = "fin" /\ f.m = <<>>

\* m * 2^e without the zero binary digits at the low end of m # 0
Canon(neg, m, e, tz) ==
  Fin(neg, BShr(m, tz), e + tz)

\* the float64 m * 2^e for m < 2^53 (or m = 2^53) and e >= -1074
Pack(neg, m, e) ==
  IF m = <<>> THEN Zero(neg)
  ELSE IF BBitLen(m) + e > 1024 THEN Inf(neg)
  ELSE Canon(neg, m, e, BTrailingZeros(m))

\* N * 2^e without its t >= 1 lowest binary digits, rounded to the nearest,
\* a tie to the even one; sticky: the exact value is above N * 2^e
RoundAt(neg, N, e, sticky, t) ==
  Pack(neg,
       IF BBit(N, t - 1) = 1 /\ (sticky \/ BBit(N, t) = 1 \/ BAnyBelow(N, t - 1))
         THEN BAdd(BShr(N, t), <<1>>) ELSE BShr(N, t),
       e + t)

\* the float64 nearest to N * 2^e for a number N # 0: 53 binary digits are
\* kept, fewer below 2^-1022.  With sticky, N has 55 digits or more.
RoundTo(neg, N, e, sticky, lowest) ==
  IF lowest <= e THEN Pack(neg, N, e) ELSE RoundAt(neg, N, e, sticky, lowest - e)

Round(neg, N, e, sticky) ==
  RoundTo(neg, N, e, sticky, Max(e + BBitLen(N) - 53, -1074))

\* float64(n) of an integer of TLC
FInt(n) ==
  IF n = 0 THEN Zero(FALSE) ELSE Round(n < 0, BNat(IF n < 0 THEN -n ELSE n), 0, FALSE)

FNeg(a) ==
  IF IsNaN(a) THEN NaN ELSE [a EXCEPT !.neg = ~a.neg]

FMul(a, b) ==
  IF IsNaN(a) \/ IsNaN(b) THEN NaN
  ELSE IF (IsInf(a) /\ IsZero(b)) \/ (IsZero(a) /\ IsInf(b)) THEN NaN
  ELSE IF IsInf(a) \/ IsInf(b) THEN Inf(a.neg # b.neg)
  ELSE IF IsZero(a) \/ IsZero(b) THEN Zero(a.neg # b.neg)
  ELSE Round(a.neg # b.neg, BMul(a.m, b.m), a.e + b.e, FALSE)

\* the quotient of a.m * 2^s by b.m with 55 binary digits or more
QuotRound(neg, quot, e) ==
  Round(neg, quot.q, e, ~quot.exact)

DivRound(neg, a, b, s) ==
  QuotRound(neg, BDiv(BShl(a.m, s), b.m), a.e - b.e - s)

FDiv(a, b) ==
  IF IsNaN(a) \/ IsNaN(b) THEN NaN
  ELSE IF (IsInf(a) /\ IsInf(b)) \/ (IsZero(a) /\ IsZero(b)) THEN NaN
  ELSE IF IsInf(a) \/ IsZero(b) THEN Inf(a.neg # b.neg)
  ELSE IF IsInf(b) \/ IsZero(a) THEN Zero(a.neg # b.neg)
  ELSE IF b.m = <<1>> THEN Round(a.neg # b.neg, a.m, a.e - b.e, FALSE)
  ELSE DivRound(a.neg # b.neg, a, b, Max(0, 55 + BBitLen(b.m) - BBitLen(a.m)))

\* -1, 0 or 1 as |a| is below, equal to or above |b|, for two finite
\* values that are not zero
MagCmp(a, b) ==
  IF BBitLen(a.m) + a.e # BBitLen(b.m) + b.e
  THEN (IF BBitLen(a.m) + a.e < BBitLen(b.m) + b.e THEN -1 ELSE 1)
  ELSE IF a.e >= b.e THEN BCmp(BShl(a.m, a.e - b.e), b.m)
  ELSE BCmp(a.m, BShl(b.m, b.e - a.e))

\* the position above the highest binary digit of a finite value that is
\* not zero: |a| is below 2^Top(a) and not below half of it.  A value more
\* than 60 digits below another one does not change it in a sum.
Top(a) ==
  BBitLen(a.m) + a.e

\* the sum of the numbers A and B with the signs of a and b, times 2^e
SumRound(a, b, A, B, e) ==
  IF a.neg = b.neg THEN Round(a.neg, BAdd(A, B), e, FALSE)
  ELSE IF BCmp(A, B) = 0 THEN Zero(FALSE)
  ELSE IF BCmp(A, B) > 0 THEN Round(a.neg, BSub(A, B), e, FALSE)
  ELSE Round(b.neg, BSub(B, A), e, FALSE)

FAdd(a, b) ==
  IF IsNaN(a) \/ IsNaN(b) THEN NaN
  ELSE IF IsInf(a) /\ IsInf(b) THEN (IF a.neg = b.neg THEN a ELSE NaN)
  ELSE IF IsInf(a) THEN a
  ELSE IF IsInf(b) THEN b
  ELSE IF IsZero(a) /\ IsZero(b) THEN (IF a.neg = b.neg THEN a ELSE Zero(FALSE))
  ELSE IF IsZero(a) THEN b
  ELSE IF IsZero(b) THEN a
  ELSE IF Top(a) - Top(b) > 60 THEN a
  ELSE IF Top(b) - Top(a) > 60 THEN b
  ELSE SumRound(a, b, BShl(a.m, a.e - Min(a.e, b.e)), BShl(b.m, b.e - Min(a.e, b.e)),
                Min(a.e, b.e))

FSub(a, b) ==
  FAdd(a, FNeg(b))

\* -1, 0 or 1: the sign of a value that is not NaN
FSign(a) ==
  IF IsZero(a) THEN 0 ELSE IF a.neg THEN -1 ELSE 1

\* -1, 0 or 1 as a is below, equal to or above b, for values that are not
\* NaN and have the same sign
SameSignCmp(a, b) ==
  IF IsZero(a) THEN 0
  ELSE IF IsInf(a) \/ IsInf(b)
    THEN FSign(a) * ((IF IsInf(a) THEN 1 ELSE 0) - (IF IsInf(b) THEN 1 ELSE 0))
  ELSE FSign(a) * MagCmp(a, b)

\* a < b: false with a NaN, and the two zeros are equal
FLess(a, b) ==
  /\ ~IsNaN(a) /\ ~IsNaN(b)
  /\ IF FSign(a) # FSign(b) THEN FSign(a) < FSign(b) ELSE SameSignCmp(a, b) < 0

\* a == b
FEq(a, b) ==
  /\ ~IsNaN(a) /\ ~IsNaN(b)
  /\ a = b \/ (IsZero(a) /\ IsZero(b))

\* a <= b
FLeq(a, b) ==
  FLess(a, b) \/ FEq(a, b)

\* the whole part of |f| for a finite f
FWhole(f) ==
  IF f.m = <<>> THEN <<>>
  ELSE IF f.e >= 0 THEN BShl(f.m, f.e) ELSE BShr(f.m, -f.e)

\* trunc(f) as a float64
FTrunc(f) ==
  IF f.cls # "fin" \/ f.e >= 0 THEN f
  ELSE Pack(f.neg, FWhole(f), 0)

(***************************************************************************)
(* Go's int and int64 on a 64-bit build: sign and magnitude.               *)
(***************************************************************************)
I64(neg, mag) ==
  [neg |-> neg /\ mag # <<>>, mag |-> mag]

\* the integer n of TLC
GoInt(n) ==
  I64(n < 0, BNat(IF n < 0 THEN -n ELSE n))

\* 2^63 = 8 * 2^60 and 2^64 = 16 * 2^60, in digits
Two63 ==
  <<0, 0, 0, 0, 8>>

Two64 ==
  <<0, 0, 0, 0, 16>>

MinInt64 ==
  [neg |-> TRUE, mag |-> <<0, 0, 0, 0, 8>>]

\* 2^63 - 1
MaxInt64 ==
  [neg |-> FALSE, mag |-> <<32767, 32767, 32767, 32767, 7>>]

\* a mod 2^64
BLow64(a) ==
  BNorm([i \in 1..Min(Len(a), 5) |-> IF i = 5 THEN a[i] % 16 ELSE a[i]])

\* the int64 with the two's complement u < 2^64
FromUnsigned(u) ==
  IF BCmp(u, Two63) >= 0 THEN I64(TRUE, BSub(Two64, u)) ELSE I64(FALSE, u)

\* the integer (-1)^neg * mag wrapped to 64 bits
Wrap64(neg, mag) ==
  IF neg /\ BLow64(mag) # <<>> THEN FromUnsigned(BSub(Two64, BLow64(mag)))
  ELSE FromUnsigned(BLow64(mag))

\* a * b of two int64, which wraps
IMul(a, b) ==
  Wrap64(a.neg # b.neg, BMul(a.mag, b.mag))

\* a / b and a % b of Go for b > 0: the quotient is truncated toward zero
\* and the remainder has the sign of a
IQuo(a, b) ==
  I64(a.neg, BDiv(a.mag, b.mag).q)

\* a - q * b for the quotient q
IRemOf(a, b, q) ==
  I64(a.neg, BSub(a.mag, BMul(q.mag, b.mag)))

IRem(a, b) ==
  IRemOf(a, b, IQuo(a, b))

ILess(a, b) ==
  IF a.neg # b.neg THEN a.neg
  ELSE IF a.neg THEN BCmp(a.mag, b.mag) > 0
  ELSE BCmp(a.mag, b.mag) < 0

ILeq(a, b) ==
  a = b \/ ILess(a, b)

\* float64(i) of an int64
FromI64(i) ==
  IF i.mag = <<>> THEN Zero(FALSE) ELSE Round(i.neg, i.mag, 0, FALSE)

\* the value is finite and its whole part is an int64
FitsInt64(f) ==
  /\ f.cls = "fin"
  /\ \/ f.m = <<>>
     \/ BBitLen(f.m) + f.e <= 63
     \/ f.neg /\ f.m = <<1>> /\ f.e = 63

\* the values of int64(f), and of int(f): truncation toward zero.  Of a
\* value that is not an int64 the result is implementation-dependent: the
\* builds give the lowest integer, the highest one or zero.
Int64Of(f) ==
  IF FitsInt64(f) THEN {I64(f.neg, FWhole(f))}
  ELSE {MinInt64, I64(FALSE, <<>>), MaxInt64}

(***************************************************************************)
(* Numbers the program names.                                              *)
(***************************************************************************)
F0 ==
  Zero(FALSE)

F1 ==
  [cls |-> "fin", neg |-> FALSE, m |-> <<1>>, e |-> 0]

\* 2 and 60 = 15 * 2^2
F2 ==
  [cls |-> "fin", neg |-> FALSE, m |-> <<1>>, e |-> 1]

F60 ==
  [cls |-> "fin", neg |-> FALSE, m |-> <<15>>, e |-> 2]

\* 1024 = 2^10, 50*1024 = 25 * 2^11, 128*1024 = 2^17, 8388608 = 2^23
F1024 ==
  [cls |-> "fin", neg |-> FALSE, m |-> <<1>>, e |-> 10]

F50x1024 ==
  [cls |-> "fin", neg |-> FALSE, m |-> <<25>>, e |-> 11]

F128x1024 ==
  [cls |-> "fin", neg |-> FALSE, m |-> <<1>>, e |-> 17]

F8388608 ==
  [cls |-> "fin", neg |-> FALSE, m |-> <<1>>, e |-> 23]

\* 1000000.0 = 15625 * 2^6, 1e9 = 1953125 * 2^9 and 60 * 1e9 =
\* 29296875 * 2^11; 1953125 = 19813 + 59 * 2^15 and 29296875 = 2283 +
\* 894 * 2^15
F1e6 ==
  [cls |-> "fin", neg |-> FALSE, m |-> <<15625>>, e |-> 6]

F1e9 ==
  [cls |-> "fin", neg |-> FALSE, m |-> <<19813, 59>>, e |-> 9]

F60e9 ==
  [cls |-> "fin", neg |-> FALSE, m |-> <<2283, 894>>, e |-> 11]

\* the float64 of the literals 0.95, 0.01, 0.1 and 0.5, the nearest to
\* each: FDiv(FInt(95), FInt(100)) = 0x1E666666666666 * 2^-53 with its low
\* zero digit dropped, FDiv(FInt(1), FInt(100)) = 0x147AE147AE147B * 2^-59,
\* FDiv(FInt(1), FInt(10)) = 0x1999999999999A * 2^-56 with its low zero
\* digit dropped, and 2^-1; the digits are in base 2^15, the lowest first
F095 ==
  [cls |-> "fin", neg |-> FALSE, m |-> <<13107, 26214, 19660, 121>>, e |-> -52]

F001 ==
  [cls |-> "fin", neg |-> FALSE, m |-> <<5243, 3932, 27525, 163>>, e |-> -59]

F01 ==
  [cls |-> "fin", neg |-> FALSE, m |-> <<19661, 6553, 13107, 102>>, e |-> -55]

F05 ==
  [cls |-> "fin", neg |-> FALSE, m |-> <<1>>, e |-> -1]

I0 ==
  [neg |-> FALSE, mag |-> <<>>]

I2 ==
  [neg |-> FALSE, mag |-> <<2>>]

I60 ==
  [neg |-> FALSE, mag |-> <<60>>]

\* time.Second = 1000000000 = 18944 + 30517 * 2^15 and time.Minute =
\* 60000000000 = 22528 + 28814 * 2^15 + 55 * 2^30, in nanoseconds
Second ==
  [neg |-> FALSE, mag |-> <<18944, 30517>>]

Minute ==
  [neg |-> FALSE, mag |-> <<22528, 28814, 55>>]

(***************************************************************************)
(* Strings as character sequences.                                         *)
(***************************************************************************)
Digits ==
  <<"0", "1", "2", "3", "4", "5", "6", "7", "8", "9">>

IsDigit(c) ==
  \E i \in 1..10 : Digits[i] = c

DigitVal(c) ==
  (CHOOSE i \in 1..10 : Digits[i] = c) - 1

AllDigits(s) ==
  \A i \in 1..Len(s) : IsDigit(s[i])

RECURSIVE DigitsVal(_)
DigitsVal(s) ==
  IF s = <<>> THEN 0 ELSE DigitsVal(SubSeq(s, 1, Len(s) - 1)) * 10 + DigitVal(s[Len(s)])

\* index of the first occurrence of character c in s, 0 when absent
IndexOf(s, c) ==
  IF \E i \in 1..Len(s) : s[i] = c
  THEN CHOOSE i \in 1..Len(s) : s[i] = c /\ \A j \in 1..(i - 1) : s[j] # c
  ELSE 0

Contains(s, c) ==
  IndexOf(s, c) # 0

\* lower(c) of strconv for the letters its syntax knows
ToLower(c) ==
  CASE c = "A" -> "a" [] c = "B" -> "b" [] c = "C" -> "c" [] c = "D" -> "d"
    [] c = "E" -> "e" [] c = "F" -> "f" [] c = "I" -> "i" [] c = "N" -> "n"
    [] c = "P" -> "p" [] c = "T" -> "t" [] c = "X" -> "x" [] c = "Y" -> "y"
    [] OTHER -> c

LowerS(s) ==
  [i \in 1..Len(s) |-> ToLower(s[i])]

HexDigits ==
  <<"0", "1", "2", "3", "4", "5", "6", "7", "8", "9", "a", "b", "c", "d", "e", "f">>

RECURSIVE HexVal(_)
HexVal(s) ==
  IF s = <<>> THEN 0
  ELSE HexVal(SubSeq(s, 1, Len(s) - 1)) * 16
         + (CHOOSE i \in 1..16 : HexDigits[i] = s[Len(s)]) - 1

RECURSIVE Pow(_, _)
Pow(b, k) ==
  IF k = 0 THEN 1 ELSE b * Pow(b, k - 1)

\* the number of leading "0" characters of s
RECURSIVE LeadingZeros(_)
LeadingZeros(s) ==
  IF Len(s) > 0 /\ s[1] = "0" THEN 1 + LeadingZeros(Tail(s)) ELSE 0

\* s cut at the first character c: the text before it and the text after it
CutAt(s, c) ==
  LET i == IndexOf(s, c)
  IN  [found |-> i # 0,
       head  |-> IF i = 0 THEN s ELSE SubSeq(s, 1, i - 1),
       tail  |-> IF i = 0 THEN <<>> ELSE SubSeq(s, i + 1, Len(s))]

\* a text without its sign character
Unsigned(s) ==
  IF Len(s) > 0 /\ s[1] \in {"-", "+"} THEN Tail(s) ELSE s

IsNegText(s) ==
  Len(s) > 0 /\ s[1] = "-"

\* the number the first i characters of a text of digits in base 10 or 16
\* spell, taken four characters at a time from the end
RECURSIVE BDigits(_, _, _)
BDigits(s, i, base) ==
  IF i <= 4 THEN BNat(IF base = 16 THEN HexVal(SubSeq(s, 1, i)) ELSE DigitsVal(SubSeq(s, 1, i)))
  ELSE BAdd(BMul(BDigits(s, i - 4, base), BNat(Pow(base, 4))),
            BNat(IF base = 16 THEN HexVal(SubSeq(s, i - 3, i))
                 ELSE DigitsVal(SubSeq(s, i - 3, i))))

\* the exponent a text of digits spells, as readFloat accumulates it: a
\* digit is taken in while the exponent is below 10000
RECURSIVE ExpVal(_, _, _)
ExpVal(s, i, e) ==
  IF i > Len(s) THEN e
  ELSE IF e < 10000 THEN ExpVal(s, i + 1, e * 10 + DigitVal(s[i]))
  ELSE ExpVal(s, i + 1, e)

\* a value that has overflowed is the infinity with a range error
Ranged(val) ==
  [ok |-> ~IsInf(val), val |-> val]

\* the float64 nearest to D / 5^n * 2^e: the quotient of D * 2^s by 5^n
\* has 55 binary digits or more
DecimalQuot(neg, D, den, e, s) ==
  QuotRound(neg, BDiv(BShl(D, s), den), e - s)

\* the float64 nearest to D * 10^e10 for a number D # 0 of nd decimal
\* digits: at 10^309 and above it is the infinity, below 10^-325 the zero
DecimalRound(neg, D, nd, e10) ==
  IF nd + e10 >= 310 THEN Inf(neg)
  ELSE IF nd + e10 <= -325 THEN Zero(neg)
  ELSE IF e10 >= 0 THEN Round(neg, BMul(BPow5(e10), D), e10, FALSE)
  ELSE DecimalQuot(neg, D, BPow5(-e10), e10,
                   Max(0, 55 + BBitLen(BPow5(-e10)) - BBitLen(D)))

\* the value of a well-formed decimal text: digits are those of the
\* mantissa, ipLen of them before the point, e10 the exponent.  The result
\* is the float64 nearest to the value spelled; a value too large is the
\* infinity with a range error, one too small is the zero.
DecimalValue(digits, ipLen, e10, neg) ==
  IF LeadingZeros(digits) = Len(digits) THEN [ok |-> TRUE, val |-> Zero(neg)]
  ELSE Ranged(DecimalRound(neg, BDigits(digits, Len(digits), 10),
                           Len(digits) - LeadingZeros(digits),
                           e10 - (Len(digits) - ipLen)))

\* the value of a well-formed hexadecimal text with the binary exponent e2
HexValue(digits, ipLen, e2, neg) ==
  IF BDigits(digits, Len(digits), 16) = <<>> THEN [ok |-> TRUE, val |-> Zero(neg)]
  ELSE Ranged(Round(neg, BDigits(digits, Len(digits), 16),
                    e2 - 4 * (Len(digits) - ipLen), FALSE))

\* the exponent of the text e with its optional sign
SignedExp(e) ==
  IF IsNegText(e) THEN -ExpVal(Unsigned(e), 1, 0) ELSE ExpVal(Unsigned(e), 1, 0)

\* mantissa ip[.fp] and exponent text e: digits on at least one side of the
\* point, and an exponent (which the hexadecimal notation requires) has a
\* digit after its optional sign
ParseFields(ip, fp, hasExp, e, neg, hex) ==
  LET digits == IF hex THEN {HexDigits[i] : i \in 1..16} ELSE {Digits[i] : i \in 1..10}
      ok     == /\ \A i \in 1..Len(ip) : ip[i] \in digits
                /\ \A i \in 1..Len(fp) : fp[i] \in digits
                /\ Len(ip) + Len(fp) > 0
                /\ IF hasExp THEN Len(Unsigned(e)) > 0 /\ AllDigits(Unsigned(e)) ELSE ~hex
  IN  IF ~ok THEN [ok |-> FALSE, val |-> Zero(FALSE)]
      ELSE IF hex THEN HexValue(ip \o fp, Len(ip), SignedExp(e), neg)
      ELSE DecimalValue(ip \o fp, Len(ip), SignedExp(e), neg)

\* parts: the text cut at the exponent letter
ParseParts(parts, neg, hex) ==
  ParseFields(CutAt(parts.head, ".").head, CutAt(parts.head, ".").tail,
              parts.found, parts.tail, neg, hex)

\* underscoreOK of strconv: a "_" stands between two digits, or between the
\* base prefix and a digit.  The kind of a character is "0" for a digit
\* (and for the prefix), "_" for an underscore and "!" for another one;
\* "^" is the beginning of the number.
CharKind(c, hex) ==
  IF c \in {Digits[k] : k \in 1..10} \/ (hex /\ c \in {HexDigits[k] : k \in 11..16}) THEN "0"
  ELSE IF c = "_" THEN "_"
  ELSE "!"

\* an underscore follows a digit, and what follows an underscore is a digit
KindAllowed(saw, kind) ==
  /\ kind = "_" => saw = "0"
  /\ kind = "!" => saw # "_"

\* saw is the kind of the character before position i
RECURSIVE UnderscoreScan(_, _, _, _)
UnderscoreScan(s, i, saw, hex) ==
  IF i > Len(s) THEN saw # "_"
  ELSE /\ KindAllowed(saw, CharKind(s[i], hex))
       /\ UnderscoreScan(s, i + 1, CharKind(s[i], hex), hex)

\* body: the text after the sign, in lower case
UnderscoreOK(body) ==
  IF Len(body) >= 2 /\ body[1] = "0" /\ body[2] \in {"b", "o", "x"}
  THEN UnderscoreScan(body, 3, "0", body[2] = "x")
  ELSE UnderscoreScan(body, 1, "^", FALSE)

NotUnderscore(c) ==
  c # "_"

\* the text without its digit separators
Digested(s) ==
  SelectSeq(s, NotUnderscore)

\* the number after the sign, in lower case
ParseBody(body, neg) ==
  IF body \in {<<"i", "n", "f">>, <<"i", "n", "f", "i", "n", "i", "t", "y">>}
  THEN [ok |-> TRUE, val |-> Inf(neg)]
  ELSE IF ~UnderscoreOK(body) THEN [ok |-> FALSE, val |-> Zero(FALSE)]
  ELSE IF Len(body) > 2 /\ body[1] = "0" /\ body[2] = "x"
  THEN ParseParts(CutAt(Digested(SubSeq(body, 3, Len(body))), "p"), neg, TRUE)
  ELSE ParseParts(CutAt(Digested(body), "e"), neg, FALSE)

\* strconv.ParseFloat(s, 64): the special spellings [+-]inf, [+-]infinity
\* and nan in any case, the decimal notation [+-]digits[.digits][e[+-]digits]
\* and the hexadecimal notation [+-]0x hexdigits[.hexdigits]p[+-]digits.  A
\* syntax error returns 0 and a non-nil error.  The value keeps the sign of
\* a zero.  The digits may be separated by "_" where underscoreOK allows
\* it.
ParseFloat(s) ==
  IF LowerS(s) = <<"n", "a", "n">> THEN [ok |-> TRUE, val |-> NaN]
  ELSE ParseBody(LowerS(Unsigned(s)), IsNegText(s))

\* strings.TrimSuffix(s, "s")
TrimSuffixS(s) ==
  IF Len(s) > 0 /\ s[Len(s)] = "s" THEN SubSeq(s, 1, Len(s) - 1) ELSE s

\* strings.Split(s, sep) for a one-character separator
RECURSIVE Split(_, _)
Split(s, sep) ==
  LET i == IndexOf(s, sep)
  IN  IF i = 0 THEN <<s>>
      ELSE <<SubSeq(s, 1, i - 1)>> \o Split(SubSeq(s, i + 1, Len(s)), sep)

\* mutant: the text is read as plain seconds, colons are not understood
parseDuration_SecondsOnly(s) ==
  ParseFloat(TrimSuffixS(s)).val

\* the loop of parseDuration from part i down to the first: sec += v * mul
\* and mul *= 60
RECURSIVE parseDurationFrom(_, _, _, _)
parseDurationFrom(parts, i, mul, sec) ==
  IF i = 0 THEN sec
  ELSE parseDurationFrom(parts, i - 1, FMul(mul, F60),
                         FAdd(sec, FMul(ParseFloat(parts[i]).val, mul)))

parseDuration(s) ==
  LET parts == Split(TrimSuffixS(s), ":")
  IN  parseDurationFrom(parts, Len(parts), F1, F0)

(***************************************************************************)
(* Constants of the program.                                               *)
(***************************************************************************)
stateInputFile == "stateInputFile"
stateInputSize == "stateInputSize"
stateInputRes == "stateInputRes"
stateFPS == "stateFPS"
stateSelectHW == "stateSelectHW"
stateSelectCodec == "stateSelectCodec"
stateSelectCRF == "stateSelectCRF"
stateSelectQuality == "stateSelectQuality"
stateProcessing == "stateProcessing"
stateDone == "stateDone"
stateError == "stateError"

hwCPU == "CPU"
hwNVIDIA == "NVIDIA"
hwAMD == "AMD"
hwINTEL == "Intel"

hardwareOptions ==
  <<hwCPU, hwNVIDIA, hwAMD, hwINTEL>>

modeVideo == "modeVideo"
modeGIF == "modeGIF"
modeAPNG == "modeAPNG"
modeAVIF == "modeAVIF"

OutputModes ==
  {modeVideo, modeGIF, modeAPNG, modeAVIF}

codecInfo(name, lib, ext) ==
  [Name |-> name, FFmpegLib |-> lib, Ext |-> ext]

encoderMap ==
  [hw \in {hwCPU, hwNVIDIA, hwAMD, hwINTEL} |->
     CASE hw = hwCPU ->
            <<codecInfo("AV1 (SVT-AV1)", "libsvtav1", ".webm"),
              codecInfo("AV1 (AOM)", "libaom-av1", ".webm"),
              codecInfo("AV1 (rav1e)", "librav1e", ".webm"),
              codecInfo("VP9", "libvpx-vp9", ".webm"),
              codecInfo("H.264", "libx264", ".mp4"),
              codecInfo("H.265", "libx265", ".mp4")>>
       [] hw = hwNVIDIA ->
            <<codecInfo("H.264 (NVENC)", "h264_nvenc", ".mp4"),
              codecInfo("HEVC (NVENC)", "hevc_nvenc", ".mp4"),
              codecInfo("AV1 (NVENC)", "av1_nvenc", ".webm")>>
       [] hw = hwAMD ->
            <<codecInfo("H.264 (AMF)", "h264_amf", ".mp4"),
              codecInfo("HEVC (AMF)", "hevc_amf", ".mp4"),
              codecInfo("AV1 (AMF)", "av1_amf", ".webm")>>
       [] hw = hwINTEL ->
            <<codecInfo("H.264 (QSV)", "h264_qsv", ".mp4"),
              codecInfo("HEVC (QSV)", "hevc_qsv", ".mp4"),
              codecInfo("VP9 (QSV)", "vp9_qsv", ".webm"),
              codecInfo("AV1 (QSV)", "av1_qsv", ".webm")>>]

\* the characters of an encoder library name, for strings.Contains
LibChars(lib) ==
  CASE lib = "libsvtav1"  -> <<"l","i","b","s","v","t","a","v","1">>
    [] lib = "libaom-av1" -> <<"l","i","b","a","o","m","-","a","v","1">>
    [] lib = "librav1e"   -> <<"l","i","b","r","a","v","1","e">>
    [] lib = "libvpx-vp9" -> <<"l","i","b","v","p","x","-","v","p","9">>
    [] lib = "libx264"    -> <<"l","i","b","x","2","6","4">>
    [] lib = "libx265"    -> <<"l","i","b","x","2","6","5">>
    [] lib = "h264_nvenc" -> <<"h","2","6","4","_","n","v","e","n","c">>
    [] lib = "hevc_nvenc" -> <<"h","e","v","c","_","n","v","e","n","c">>
    [] lib = "av1_nvenc"  -> <<"a","v","1","_","n","v","e","n","c">>
    [] lib = "h264_amf"   -> <<"h","2","6","4","_","a","m","f">>
    [] lib = "hevc_amf"   -> <<"h","e","v","c","_","a","m","f">>
    [] lib = "av1_amf"    -> <<"a","v","1","_","a","m","f">>
    [] lib = "h264_qsv"   -> <<"h","2","6","4","_","q","s","v">>
    [] lib = "hevc_qsv"   -> <<"h","e","v","c","_","q","s","v">>
    [] lib = "vp9_qsv"    -> <<"v","p","9","_","q","s","v">>
    [] lib = "av1_qsv"    -> <<"a","v","1","_","q","s","v">>
    [] OTHER              -> <<>>

\* strings.Contains(s, sub) on character sequences
HasSubstr(s, sub) ==
  \E i \in 1..(Len(s) - Len(sub) + 1) : SubSeq(s, i, i + Len(sub) - 1) = sub

\* mutant: the library name is compared, not searched
LibContains_ExactMatch(lib, sub) ==
  LibChars(lib) = sub

LibContains(lib, sub) ==
  HasSubstr(LibChars(lib), sub)

IsAV1(c) ==
  LibContains(c.FFmpegLib, <<"a","v","1">>)

\* the codec list offered for a backend (AV1 only in AVIF mode)
CodecOptions(hw, mode) ==
  IF mode = modeAVIF THEN SelectSeq(encoderMap[hw], IsAV1) ELSE encoderMap[hw]

(***************************************************************************)
(* Inputs of the model: command lines and typed texts.                     *)
(***************************************************************************)
\* texts the user may have typed when Enter is pressed at the size step
SizeTexts ==
  {<<>>, <<"1","0">>, <<"a","b","c">>, <<"0">>}

ResTexts ==
  {<<>>, <<"2">>}

FPSTexts ==
  {<<>>, <<"3","0">>}

\* -trim start end pairs of the command line (none, or 1s .. 5s)
TrimArgs ==
  {<< <<>>, <<>> >>, << <<"1","s">>, <<"5","s">> >>}

errNil == "nil"

\* -o values of the command line ("" = flag absent)
CustomOuts ==
  {""}

\* documents ffprobe may print on exit 0: format.duration and whether an
\* audio stream is listed (<<>> = field missing or document unparsable)
ProbeDocs ==
  { [duration |-> <<"1","0",".","0","0","0","0","0","0">>, hasAudio |-> TRUE],
    [duration |-> <<>>, hasAudio |-> FALSE] }

\* lines a subprocess may print on its progress stream
LineOutTime ==
  <<"o","u","t","_","t","i","m","e","_","u","s","=","5","0","0","0","0","0","0">>

LineFrame ==
  <<"f","r","a","m","e","=","1","2">>

\* bufio.MaxScanTokenSize
MaxScanTokenSize == 65536

\* a line of MaxScanTokenSize bytes before its line break, as a sequence
LineTooLong ==
  SubSeq([i \in 1..MaxScanTokenSize |-> "x"], 1, MaxScanTokenSize)

ProgressLines ==
  {LineOutTime, LineFrame, LineTooLong}

\* paths the user may type at the file step; only InputPath exists
InputPath ==
  <<"i","n">>

PathTexts ==
  {InputPath, <<"n","o">>}

\* seconds since the subprocess was started, when a line is read
ElapsedSecs ==
  {FInt(7)}

ExitCodes ==
  {0, 1}

StderrText == "diagnostic"

(***************************************************************************)
(* Errors and messages.                                                    *)
(***************************************************************************)
Err(text, code, log) ==
  [text |-> text, code |-> code, log |-> log]

NilErr ==
  Err(errNil, 0, "")

\* mutant: every error value is taken for nil
IsNil_Always(e) ==
  TRUE

IsNil(e) ==
  e.text = errNil

\* a status line "<text>" or "<text> (<eta>)": eta is "" (no parenthesis),
\* "..." (the placeholder) or "eta" for "eta mm:ss"
NoLine ==
  [text |-> "", eta |-> "", mm |-> I0, ss |-> I0]

progressMsg(line, progress, debugCmd) ==
  [line |-> line, progress |-> progress, debugCmd |-> debugCmd]

workDoneMsg(outputFile, finalSize, err) ==
  [outputFile |-> outputFile, finalSize |-> finalSize, err |-> err]

(***************************************************************************)
(* Filter graph builder.                                                   *)
(***************************************************************************)
Filter(name, num, text) ==
  [name |-> name, num |-> num, text |-> text]

\* the characters of unicode.IsSpace; one that has no escape in a string
\* of this notation is written as its code point
WhiteSpace ==
  {" ", "\t", "\n", "\r", "\f", "U+000B", "U+0085", "U+00A0", "U+1680",
   "U+2000", "U+2001", "U+2002", "U+2003", "U+2004", "U+2005", "U+2006",
   "U+2007", "U+2008", "U+2009", "U+200A", "U+2028", "U+2029", "U+202F",
   "U+205F", "U+3000"}

RECURSIVE TrimLeft(_)
TrimLeft(s) ==
  IF Len(s) > 0 /\ s[1] \in WhiteSpace THEN TrimLeft(Tail(s)) ELSE s

RECURSIVE TrimRight(_)
TrimRight(s) ==
  IF Len(s) > 0 /\ s[Len(s)] \in WhiteSpace
  THEN TrimRight(SubSeq(s, 1, Len(s) - 1)) ELSE s

TrimSpace(s) ==
  TrimRight(TrimLeft(s))

\* strings.ReplaceAll(s, "x", ":")
ReplaceXColon(s) ==
  [i \in 1..Len(s) |-> IF s[i] = "x" THEN ":" ELSE s[i]]

\* the expression trunc((iw/N)/2)*2 of the filter as ffmpeg evaluates it,
\* in float64, for iw = dim and N = div
ScaleExpr(dim, div) ==
  FMul(FTrunc(FDiv(FDiv(FInt(dim), div), F2)), F2)

\* mutant: the input is not trimmed before it is classified
buildScaleFilter_NoTrim(input0) ==
  LET input == input0
      pf    == ParseFloat(input)
  IN  IF input = <<>> \/ input = <<"1">> THEN <<>>
      ELSE IF pf.ok /\ FLess(F0, pf.val)
        THEN <<[name |-> "scale-div", num |-> pf.val, text |-> <<>>]>>
      ELSE IF Contains(input, "x") \/ Contains(input, ":")
        THEN <<[name |-> "scale-wh", num |-> F0, text |-> ReplaceXColon(input)]>>
      ELSE <<>>

\* buildScaleFilter: <<>> is the empty string (no filter); "scale-div" is
\* scale=trunc((iw/N)/2)*2:trunc((ih/N)/2)*2, "scale-wh" is scale=<text>
buildScaleFilter(input0) ==
  LET input == TrimSpace(input0)
      pf    == ParseFloat(input)
  IN  IF input = <<>> \/ input = <<"1">> THEN <<>>
      ELSE IF pf.ok /\ FLess(F0, pf.val)
        THEN <<Filter("scale-div", pf.val, <<>>)>>
      ELSE IF Contains(input, "x") \/ Contains(input, ":")
        THEN <<Filter("scale-wh", F0, ReplaceXColon(input))>>
      ELSE <<>>

\* mutant: the fps filter is put before the duplicate-frame removal
FilterChain_FpsFirst(resInput, fpsInput) ==
  buildScaleFilter(resInput)
    \o (IF fpsInput # <<>> THEN <<Filter("fps", F0, fpsInput)>> ELSE <<>>)
    \o <<Filter("mpdecimate", F0, <<>>)>>

\* the chain scale, mpdecimate, fps built three times in startEncoding
FilterChain(resInput, fpsInput) ==
  buildScaleFilter(resInput)
    \o <<Filter("mpdecimate", F0, <<>>)>>
    \o (IF fpsInput # <<>> THEN <<Filter("fps", F0, fpsInput)>> ELSE <<>>)

(***************************************************************************)
(* startEncoding: values computed from the job before the first stage.     *)
(***************************************************************************)
outputExt(job) ==
  CASE job.mode = modeAPNG -> ".png"
    [] job.mode = modeAVIF -> ".avif"
    [] OTHER               -> job.codecCfg.Ext

\* <input>_compressed<ext> next to the input, or the -o path
outputFile(job) ==
  IF job.customOut # "" THEN job.customOut
  ELSE CASE outputExt(job) = ".png"  -> "input_compressed.png"
         [] outputExt(job) = ".avif" -> "input_compressed.avif"
         [] outputExt(job) = ".gif"  -> "input_compressed.gif"
         [] outputExt(job) = ".mp4"  -> "input_compressed.mp4"
         [] OTHER                    -> "input_compressed.webm"

\* strings.TrimPrefix(ext, ".") on the extensions of the program
TrimPrefixDot(ext) ==
  CASE ext = ".mp4"  -> "mp4"
    [] ext = ".webm" -> "webm"
    [] ext = ".gif"  -> "gif"
    [] ext = ".png"  -> "png"
    [] ext = ".avif" -> "avif"
    [] OTHER         -> ext

formatArgs(job) ==
  (IF job.customOut # ""
     THEN <<"-f", CASE job.mode = modeAVIF -> "avif"
                    [] job.mode = modeAPNG -> "apng"
                    [] OTHER               -> TrimPrefixDot(outputExt(job))>>
     ELSE <<>>)
  \o (IF job.codecCfg.Ext = ".mp4" THEN <<"-movflags", "+faststart">> ELSE <<>>)

trimArgs(job) ==
  IF job.trimStart # <<>> /\ job.trimEnd # <<>>
  THEN <<job.trimStart, job.trimEnd>> ELSE <<>>

\* duration used for bitrate and progress: probed, or end - start of a
\* trim range with end > start
Duration(job, info) ==
  LET probed == ParseFloat(info.duration).val
      s      == parseDuration(job.trimStart)
      e      == parseDuration(job.trimEnd)
  IN  IF job.trimStart # <<>> /\ job.trimEnd # <<>> /\ FLess(s, e)
      THEN FSub(e, s) ELSE probed

\* mutant: only a negative target counts as quality mode
isCRFMode_NegativeOnly(job) ==
  FLess(job.targetMB, F0)

isCRFMode(job) ==
  FLeq(job.targetMB, F0)

isCPU(job) ==
  job.hw = hwCPU

\* if videoRate < 50*1024 { videoRate = 50 * 1024 }: a NaN stays
RateFloor(videoRate) ==
  IF FLess(videoRate, F50x1024) THEN F50x1024 ELSE videoRate

\* videoRate in bit/s before truncation to kbit/s
VideoRate(targetMB, duration, hasAudio) ==
  LET targetBits == FMul(targetMB, F8388608)
      audioRate  == IF hasAudio THEN F128x1024 ELSE F0
      totalRate  == FDiv(targetBits, duration)
  IN  RateFloor(FMul(FSub(totalRate, audioRate), F095))

\* the values videoKBit may take: int(videoRate / 1024), and 0 in quality
\* mode.  The conversion of a NaN, of an infinity and of a value beyond
\* the int64 is implementation-dependent.
VideoKBits(job, duration, hasAudio) ==
  IF isCRFMode(job) THEN {I0}
  ELSE Int64Of(FDiv(VideoRate(job.targetMB, duration, hasAudio), F1024))

\* videoKBit*2, which wraps at 64 bits
Times2(v) ==
  IMul(v, I2)

(***************************************************************************)
(* Preset mapper: the encoder flags of startEncoding.                      *)
(***************************************************************************)
\* one flag with its value: a token (s) or, when s = "", a number (i)
ArgS(flag, sv) ==
  [flag |-> flag, s |-> sv, i |-> 0]

ArgI(flag, iv) ==
  [flag |-> flag, s |-> "", i |-> iv]

\* mutant: the product is rounded up instead of truncated
ScaleTrunc_RoundUp(crfSlider, num, den) ==
  (crfSlider * num + den - 1) \div den

\* int(float64(crfSlider) * k) for k = num/den
ScaleTrunc(crfSlider, num, den) ==
  (crfSlider * num) \div den

stillPicture(job) ==
  IF job.mode = modeAVIF THEN <<ArgS("-still-picture", "0")>> ELSE <<>>

cpuExtraArgs(job) ==
  LET lib == job.codecCfg.FFmpegLib
      q   == job.quality + 1
      crf == job.crfSlider
      CrfArg(v) == IF isCRFMode(job) THEN <<ArgI("-crf", v)>> ELSE <<>>
  IN  <<ArgS("-pix_fmt", "yuv420p")>> \o stillPicture(job) \o
      CASE lib = "libvpx-vp9" ->
             <<ArgS("-speed", <<"8", "7", "6", "4", "1">>[q]),
               ArgS("-row-mt", "1"), ArgS("-tile-columns", "2")>>
             \o (IF isCRFMode(job)
                   THEN <<ArgI("-crf", 20 + ScaleTrunc(crf, 25, 10)), ArgS("-b:v", "0")>>
                   ELSE <<>>)
        [] lib = "libaom-av1" ->
             <<ArgS("-cpu-used", <<"8", "7", "6", "4", "3">>[q]),
               ArgS("-row-mt", "1"), ArgS("-tiles", "2x2")>>
             \o CrfArg(20 + (crf * 3))
        [] lib = "libsvtav1" ->
             <<ArgS("-preset", <<"12", "10", "8", "6", "4">>[q])>>
             \o CrfArg(20 + (crf * 3))
        [] lib = "librav1e" ->
             <<ArgS("-speed", <<"10", "8", "6", "4", "2">>[q])>>
             \o CrfArg(60 + (crf * 8))
        [] lib = "libx264" ->
             <<ArgS("-preset", <<"ultrafast", "veryfast", "faster", "medium", "veryslow">>[q])>>
             \o CrfArg(18 + ScaleTrunc(crf, 15, 10))
        [] lib = "libx265" ->
             <<ArgS("-preset", <<"ultrafast", "veryfast", "fast", "medium", "veryslow">>[q])>>
             \o CrfArg(20 + ScaleTrunc(crf, 16, 10))
        [] OTHER ->
             <<ArgS("-preset", "medium")>>

gpuExtraArgs(job) ==
  LET lib       == job.codecCfg.FFmpegLib
      q         == job.quality + 1
      hwQuality == 19 + ScaleTrunc(job.crfSlider, 15, 10)
  IN  <<ArgS("-pix_fmt", "yuv420p")>> \o stillPicture(job) \o
      IF LibContains(lib, <<"n","v","e","n","c">>) THEN
        <<ArgS("-preset", <<"p1", "p2", "p4", "p6", "p7">>[q]), ArgS("-rc", "vbr"),
          IF isCRFMode(job) THEN ArgI("-cq", hwQuality) ELSE ArgS("-cq", "0")>>
      ELSE IF LibContains(lib, <<"a","m","f">>) THEN
        <<ArgS("-quality",
               (IF LibContains(lib, <<"a","v","1">>)
                  THEN <<"speed", "balanced", "quality", "high_quality", "high_quality">>
                  ELSE <<"speed", "speed", "balanced", "quality", "quality">>)[q])>>
        \o (IF isCRFMode(job)
              THEN <<ArgS("-rc", "cqp"), ArgI("-qp_i", hwQuality), ArgI("-qp_p", hwQuality)>>
              ELSE <<>>)
      ELSE IF LibContains(lib, <<"q","s","v">>) THEN
        <<ArgS("-preset", <<"veryfast", "faster", "balanced", "slow", "veryslow">>[q])>>
        \o (IF isCRFMode(job) THEN <<ArgI("-global_quality", hwQuality)>> ELSE <<>>)
      ELSE <<>>

audioArgs(job, hasAudio) ==
  IF hasAudio /\ job.mode # modeAVIF
  THEN IF job.codecCfg.Ext = ".mp4"
         THEN <<"-c:a", "aac", "-b:a", "128k">>
         ELSE <<"-c:a", "libopus", "-b:a", "128k">>
  ELSE <<"-an">>

(***************************************************************************)
(* Argument vectors, as records of options.                                *)
(***************************************************************************)
\* bv, maxrate, bufsize: <<>> when absent, <<k>> for "<k>k";
\* pass: 0 when -pass is absent; passlogfile: "" when absent;
\* vf: the -vf chain; lavfi: the -lavfi graph (chain before paletteuse)
Cmd(prog) ==
  [prog |-> prog, hwaccel |-> FALSE, trim |-> <<>>, inputs |-> <<>>, cv |-> "",
   bv |-> <<>>, maxrate |-> <<>>, bufsize |-> <<>>, pass |-> 0, passlogfile |-> "",
   vf |-> <<>>, lavfi |-> <<>>, extra |-> <<>>, audio |-> <<>>, format |-> <<>>,
   out |-> ""]

probeCmd ==
  [Cmd("ffprobe") EXCEPT !.inputs = <<"input">>]

\* runtime.GOOS of the build that is modelled
GOOS == "linux"

nullOut ==
  IF GOOS = "windows" THEN "NUL" ELSE "/dev/null"

StageProbe == "Probe"
StagePalette == "GIF Palette"
StageGIF == "GIF Encode"
StageAPNG == "APNG Encode"
StageCRF == "Encoding (CRF)"
StagePass1 == "Pass 1 (Analysis)"
StagePass2 == "Pass 2 (Encoding)"
StageGPU == "GPU Encoding"

\* mutant: pass 2 is given twice the bitrate of pass 1
pass2KBit_Doubled(loc) ==
  Times2(loc.videoKBit)

\* the number in the "-b:v <n>k" argument of pass 2
pass2KBit(loc) ==
  loc.videoKBit

\* the argument vector startEncoding hands to runFFmpeg for a stage
StageArgs(job, loc, stage, base, chain, kbit) ==
      CASE stage = StagePalette ->
             [base EXCEPT !.inputs = <<"input">>,
                          !.vf = chain \o <<Filter("palettegen", F0, <<>>)>>,
                          !.out = loc.paletteFile]
        [] stage = StageGIF ->
             [base EXCEPT !.inputs = <<"input", loc.paletteFile>>,
                          !.lavfi = chain \o <<Filter("paletteuse", F0, <<>>)>>,
                          !.format = formatArgs(job),
                          !.out = outputFile(job)]
        [] stage = StageAPNG ->
             [base EXCEPT !.inputs = <<"input">>, !.vf = chain, !.cv = "apng",
                          !.extra = <<ArgS("-plays", "0")>>,
                          !.format = formatArgs(job),
                          !.out = outputFile(job)]
        [] stage = StageCRF ->
             [base EXCEPT !.inputs = <<"input">>, !.cv = job.codecCfg.FFmpegLib,
                          !.extra = cpuExtraArgs(job), !.vf = chain,
                          !.audio = audioArgs(job, loc.hasAudio),
                          !.format = formatArgs(job),
                          !.out = outputFile(job)]
        [] stage = StagePass1 ->
             [base EXCEPT !.inputs = <<"input">>, !.cv = job.codecCfg.FFmpegLib,
                          !.bv = <<kbit>>, !.pass = 1, !.passlogfile = loc.passLog,
                          !.audio = <<"-an">>, !.vf = chain,
                          !.extra = cpuExtraArgs(job),
                          !.format = <<"-f", "null">>,
                          !.out = nullOut]
        [] stage = StagePass2 ->
             [base EXCEPT !.inputs = <<"input">>, !.cv = job.codecCfg.FFmpegLib,
                          !.bv = <<pass2KBit(loc)>>, !.pass = 2,
                          !.passlogfile = loc.passLog,
                          !.vf = chain, !.extra = cpuExtraArgs(job),
                          !.audio = audioArgs(job, loc.hasAudio),
                          !.format = formatArgs(job),
                          !.out = outputFile(job)]
        [] stage = StageGPU ->
             [base EXCEPT !.hwaccel = TRUE, !.inputs = <<"input">>,
                          !.cv = job.codecCfg.FFmpegLib,
                          !.bv = IF isCRFMode(job) THEN <<>> ELSE <<kbit>>,
                          !.maxrate = IF isCRFMode(job) THEN <<>> ELSE <<kbit>>,
                          !.bufsize = IF isCRFMode(job) THEN <<>> ELSE <<Times2(kbit)>>,
                          !.vf = chain, !.extra = gpuExtraArgs(job),
                          !.audio = audioArgs(job, loc.hasAudio),
                          !.format = formatArgs(job),
                          !.out = outputFile(job)]

StageCmd(job, loc, stage) ==
  StageArgs(job, loc, stage, [Cmd("ffmpeg") EXCEPT !.trim = trimArgs(job)],
            FilterChain(job.resInput, job.fpsInput), loc.videoKBit)

(***************************************************************************)
(* Control flow of startEncoding after the probe.                          *)
(***************************************************************************)
\* mutant: the GIF and APNG cases are missing, every mode takes the
\* video branch
FirstStage_ModeBlind(job) ==
  IF isCPU(job) THEN (IF isCRFMode(job) THEN StageCRF ELSE StagePass1) ELSE StageGPU

\* mutant: the CPU backend always takes the single-pass branch
FirstStage_CpuSinglePass(job) ==
  CASE job.mode = modeGIF  -> StagePalette
    [] job.mode = modeAPNG -> StageAPNG
    [] OTHER -> IF isCPU(job) THEN StageCRF ELSE StageGPU

FirstStage(job) ==
  CASE job.mode = modeGIF  -> StagePalette
    [] job.mode = modeAPNG -> StageAPNG
    [] OTHER -> IF isCPU(job)
                THEN (IF isCRFMode(job) THEN StageCRF ELSE StagePass1)
                ELSE StageGPU

\* mutant: the GIF case finishes after the palette
NextStage_NoGifEncode(stage) ==
  IF stage = StagePass1 THEN StagePass2 ELSE ""

\* the stage started after `stage` returned nil; "" when finishWork is next
NextStage(stage) ==
  CASE stage = StagePalette -> StageGIF
    [] stage = StagePass1   -> StagePass2
    [] OTHER                -> ""

Label(text) ==
  [text |-> text, eta |-> "", mm |-> I0, ss |-> I0]

\* the messages sent on progressChan between the previous stage and the
\* start of `stage`
PreMsgs(job, loc, stage) ==
  (CASE stage = StagePalette ->
          <<progressMsg(Label("Generating Palette..."), F01, <<>>)>>
     [] stage = StageGIF ->
          <<progressMsg(Label("Encoding GIF..."), F05, <<>>)>>
     [] stage = StageAPNG ->
          <<progressMsg(Label("Encoding APNG..."), F01, <<>>)>>
     [] OTHER -> <<>>)
  \o (IF stage = StagePalette THEN <<>>
      ELSE <<progressMsg(NoLine, F0, <<StageCmd(job, loc, stage)>>)>>)

PaletteFile == "palette.png"
PassLog == "pass"

\* the three names removed after pass 2
PassLogFiles ==
  {"pass-0.log", "pass.log", "pass-0.log.mbtree"}

(***************************************************************************)
(* runFFmpeg: one line of the progress stream.                             *)
(***************************************************************************)
OutTimeKey ==
  <<"o","u","t","_","t","i","m","e","_","u","s">>

\* pct: cur / totalDuration when totalDuration > 0, else 0; at most 1.  A
\* NaN passes both tests.
Pct(us, totalDuration) ==
  LET cur == FDiv(us, F1e6)
      p0  == IF FLess(F0, totalDuration) THEN FDiv(cur, totalDuration) ELSE F0
  IN  IF FLess(F1, p0) THEN F1 ELSE p0

\* if pct > 0.01
EtaShown(pct) ==
  FLess(F001, pct)

\* remaining := (elapsed / pct) - elapsed, and 0 when that is negative
Remaining(elapsed, pct) ==
  LET r == FSub(FDiv(elapsed, pct), elapsed)
  IN  IF FLess(r, F0) THEN F0 ELSE r

\* remDur := time.Duration(remaining) * time.Second: the conversion
\* truncates, and the product of two int64 wraps
RemDurs(elapsed, pct) ==
  {IMul(d, Second) : d \in Int64Of(Remaining(elapsed, pct))}

\* Duration.Minutes(): float64(d / Minute) + float64(d % Minute) / (60 * 1e9)
\* min := d / Minute; nsec := d % Minute
MinutesOf(d, min) ==
  FAdd(FromI64(min), FDiv(FromI64(IRemOf(d, Minute, min)), F60e9))

DurationMinutes(d) ==
  MinutesOf(d, IQuo(d, Minute))

\* Duration.Seconds(): float64(d / Second) + float64(d % Second) / 1e9
\* sec := d / Second; nsec := d % Second
SecondsOf(d, sec) ==
  FAdd(FromI64(sec), FDiv(FromI64(IRemOf(d, Second, sec)), F1e9))

DurationSeconds(d) ==
  SecondsOf(d, IQuo(d, Second))

\* fmt.Sprintf("%s (%s)", prefix, etaStr) with the ETA "eta mm:ss" of
\* int(remDur.Minutes()) and int(remDur.Seconds()) % 60; the remainder of
\* Go has the sign of the dividend
EtaLine(prefix, mm, sec) ==
  [text |-> prefix, eta |-> "eta", mm |-> mm, ss |-> IRem(sec, I60)]

\* the status lines one sample may carry: the placeholder unless
\* pct > 0.01
EtaLines(prefix, elapsed, pct) ==
  IF EtaShown(pct)
  THEN UNION {{EtaLine(prefix, mm, sec) : mm \in Int64Of(DurationMinutes(d)),
                                          sec \in Int64Of(DurationSeconds(d))} :
              d \in RemDurs(elapsed, pct)}
  ELSE {[text |-> prefix, eta |-> "...", mm |-> I0, ss |-> I0]}

\* the samples a fraction pct may give
SampleOf(pct, prefix, elapsed) ==
  {<<progressMsg(eta, pct, <<>>)>> : eta \in EtaLines(prefix, elapsed, pct)}

\* the sample of a line that reports `us` microseconds
LineValue(us, totalDuration, prefix, elapsed) ==
  SampleOf(Pct(us, totalDuration), prefix, elapsed)

\* the results one line may have: <<>> when the line produces no sample,
\* else <<progressMsg>>; elapsed is time.Since(startTime).Seconds() when
\* the line is read
LineSample(line, totalDuration, prefix, elapsed) ==
  LET parts == Split(line, "=")
  IN  IF Len(parts) = 2 /\ parts[1] = OutTimeKey
      THEN LineValue(ParseFloat(parts[2]).val, totalDuration, prefix, elapsed)
      ELSE {<<>>}

finishWork(path, files) ==
  workDoneMsg(path, IF path \in files THEN "size MB" ELSE "Unknown", NilErr)

(***************************************************************************)
(* State.                                                                  *)
(***************************************************************************)
VARIABLES
  m,            \* the Bubble Tea model (type model)
  textInput,    \* m.textInput.Value()
  quitMsg,      \* tea.Quit was returned: its QuitMsg is on the way
  quit,         \* the event loop has read a QuitMsg: the program has ended
  job,          \* the arguments captured by the startEncoding closure
  pc,           \* position of the startEncoding goroutine
  loc,          \* its local variables
  closed,       \* progressChan is closed
  armed,        \* waitForProgress commands blocked on the receive
  progInflight, \* progressMsg values returned by commands, not yet handled
  doneInflight, \* workDoneMsg returned by startEncoding, not yet handled
  procs,        \* every subprocess launched, in launch order
  disk,         \* files of this run that exist
  sent,         \* history: messages sent on progressChan
  handled,      \* history: progressMsg values handled by Update
  result,       \* history: the workDoneMsg startEncoding returned
  cancelled     \* history: Ctrl-C or Esc was pressed while the job ran

vars ==
  <<m, textInput, quitMsg, quit, job, pc, loc, closed, armed, progInflight,
    doneInflight, procs, disk, sent, handled, result, cancelled>>

pipeVars ==
  <<job, pc, loc, closed, armed, progInflight, doneInflight, procs, disk, sent, handled,
    result>>

NoJob ==
  [targetMB |-> F0, resInput |-> <<>>, fpsInput |-> <<>>, trimStart |-> <<>>,
   trimEnd |-> <<>>, customOut |-> "", hw |-> "", codecCfg |-> codecInfo("", "", ""),
   mode |-> "", quality |-> 0, crfSlider |-> 0]

Pc(stage, step, k) ==
  [stage |-> stage, step |-> step, k |-> k]

NoLoc ==
  [duration |-> F0, hasAudio |-> FALSE, videoKBit |-> I0, paletteFile |-> "",
   passLog |-> "", lines |-> 0, pending |-> <<>>]

\* initialModel: the flags of the command line, and whether an existing
\* input file was named on it
initialModel(mode, trim, custom, fileGiven) ==
  [state |-> IF fileGiven THEN stateInputSize ELSE stateInputFile,
   err |-> NilErr, outputMode |-> mode, customOut |-> custom,
   filePath |-> IF fileGiven THEN InputPath ELSE <<>>,
   targetSizeMB |-> F0, targetRes |-> <<>>, targetFPS |-> <<>>,
   trimStart |-> trim[1], trimEnd |-> trim[2],
   selectedHW |-> 0, selectedCodec |-> 0, crfLevel |-> 5, qualityLevel |-> 2,
   currentLog |-> NoLine, currentCmd |-> <<>>, percent |-> F0,
   outputFile |-> "", finalSize |-> ""]

Init ==
  /\ \E mode \in OutputModes, trim \in TrimArgs, custom \in CustomOuts, fileGiven \in BOOLEAN :
       m = initialModel(mode, trim, custom, fileGiven)
  /\ textInput = <<>>
  /\ quitMsg = FALSE
  /\ quit = FALSE
  /\ job = NoJob
  /\ pc = Pc("", "idle", 0)
  /\ loc = NoLoc
  /\ closed = FALSE
  /\ armed = 0
  /\ progInflight = <<>>
  /\ doneInflight = <<>>
  /\ procs = <<>>
  /\ disk = {}
  /\ sent = <<>>
  /\ handled = <<>>
  /\ result = <<>>
  /\ cancelled = FALSE

(***************************************************************************)
(* model.Update on key messages.                                           *)
(***************************************************************************)
TextStates ==
  {stateInputFile, stateInputSize, stateInputRes, stateFPS}

TextsFor(st) ==
  CASE st = stateInputFile -> PathTexts
    [] st = stateInputSize -> SizeTexts
    [] st = stateInputRes  -> ResTexts
    [] st = stateFPS       -> FPSTexts

\* Ctrl-C or Esc, in any state: Update returns tea.Quit, the command that
\* sends a QuitMsg.  The event loop goes on reading messages, and the
\* goroutines go on running, until it reads that one.
UpdateKeyQuit ==
  /\ ~quit
  /\ quitMsg' = TRUE
  /\ cancelled' = (cancelled \/ m.state = stateProcessing)
  /\ UNCHANGED <<m, textInput, quit, pipeVars>>

\* the event loop reads the QuitMsg: Run returns and main ends the process
HandleQuitMsg ==
  /\ ~quit
  /\ quitMsg
  /\ quit' = TRUE
  /\ quitMsg' = FALSE
  /\ UNCHANGED <<m, textInput, cancelled, pipeVars>>

\* printable keys in a text state: m.textInput.Update(msg)
UpdateKeyText(t) ==
  /\ ~quit
  /\ m.state \in TextStates
  /\ t \in TextsFor(m.state)
  /\ textInput' = t
  /\ UNCHANGED <<m, quit, quitMsg, cancelled, pipeVars>>

\* strings.Trim(strings.TrimSpace(path), "\"'")
RECURSIVE TrimQuotes(_)
TrimQuotes(s) ==
  IF Len(s) > 0 /\ s[1] \in {"\"", "'"} THEN TrimQuotes(Tail(s))
  ELSE IF Len(s) > 0 /\ s[Len(s)] \in {"\"", "'"} THEN TrimQuotes(SubSeq(s, 1, Len(s) - 1))
  ELSE s

cleanPath(path) ==
  TrimQuotes(TrimSpace(path))

UpdateInputFileEnter ==
  /\ ~quit
  /\ m.state = stateInputFile
  /\ LET path == cleanPath(textInput)
     IN  IF path # InputPath
         THEN /\ m' = [m EXCEPT !.err = Err("file not found", 0, "")]
              /\ UNCHANGED textInput
         ELSE /\ m' = [m EXCEPT !.filePath = path, !.state = stateInputSize, !.err = NilErr]
              /\ textInput' = <<>>
  /\ UNCHANGED <<quit, quitMsg, cancelled, pipeVars>>

UpdateInputSizeEnter ==
  /\ ~quit
  /\ m.state = stateInputSize
  /\ LET val  == textInput
         size == ParseFloat(val)
     IN  IF val = <<>>
         THEN /\ m' = [m EXCEPT !.targetSizeMB = F0, !.state = stateInputRes,
                                !.err = NilErr]
              /\ textInput' = <<>>
         ELSE IF ~size.ok \/ FLeq(size.val, F0)
         THEN /\ m' = [m EXCEPT !.err = Err("invalid size", 0, "")]
              /\ UNCHANGED textInput
         ELSE /\ m' = [m EXCEPT !.targetSizeMB = size.val, !.state = stateInputRes,
                                !.err = NilErr]
              /\ textInput' = <<>>
  /\ UNCHANGED <<quit, quitMsg, cancelled, pipeVars>>

UpdateInputResEnter ==
  /\ ~quit
  /\ m.state = stateInputRes
  /\ m' = [m EXCEPT !.targetRes = textInput, !.state = stateFPS, !.err = NilErr]
  /\ textInput' = <<>>
  /\ UNCHANGED <<quit, quitMsg, cancelled, pipeVars>>

\* the tea.Batch returned when the job starts: the startEncoding command
\* and one waitForProgress command
StartJob(mm, hw, codecCfg) ==
  /\ job' = [targetMB |-> mm.targetSizeMB, resInput |-> mm.targetRes,
             fpsInput |-> mm.targetFPS, trimStart |-> mm.trimStart,
             trimEnd |-> mm.trimEnd, customOut |-> mm.customOut, hw |-> hw,
             codecCfg |-> codecCfg, mode |-> mm.outputMode,
             quality |-> mm.qualityLevel, crfSlider |-> mm.crfLevel]
  /\ pc' = Pc(StageProbe, "analyzing", 0)
  /\ armed' = armed + 1
  /\ closed' = FALSE
  /\ UNCHANGED <<loc, progInflight, doneInflight, procs, disk, sent, handled, result>>

UpdateFPSEnter ==
  /\ ~quit
  /\ m.state = stateFPS
  /\ UNCHANGED <<textInput, quit, quitMsg, cancelled>>
  /\ IF m.outputMode = modeGIF \/ m.outputMode = modeAPNG
     THEN LET mm == [m EXCEPT !.targetFPS = textInput, !.state = stateProcessing]
              codecCfg == IF m.outputMode = modeGIF
                            THEN codecInfo("GIF", "", ".gif")
                            ELSE codecInfo("APNG", "", ".png")
          IN  /\ m' = mm
              /\ StartJob(mm, hwCPU, codecCfg)
     ELSE /\ m' = [m EXCEPT !.targetFPS = textInput, !.state = stateSelectHW,
                            !.err = NilErr]
          /\ UNCHANGED pipeVars

UpdateSelectHW(key) ==
  /\ ~quit
  /\ m.state = stateSelectHW
  /\ key \in {"up", "down", "enter"}
  /\ m' = CASE key = "up" ->
                 IF m.selectedHW > 0 THEN [m EXCEPT !.selectedHW = @ - 1] ELSE m
            [] key = "down" ->
                 IF m.selectedHW < Len(hardwareOptions) - 1
                   THEN [m EXCEPT !.selectedHW = @ + 1] ELSE m
            [] key = "enter" ->
                 [m EXCEPT !.state = stateSelectCodec, !.selectedCodec = 0]
  /\ UNCHANGED <<textInput, quit, quitMsg, cancelled, pipeVars>>

\* mutant: "down" moves the codec cursor without testing it
UpdateSelectCodec_NoUpperBound(key) ==
  /\ ~quit
  /\ m.state = stateSelectCodec
  /\ key \in {"up", "down", "enter"}
  /\ LET hw      == hardwareOptions[m.selectedHW + 1]
         options == CodecOptions(hw, m.outputMode)
     IN  m' = CASE key = "up" ->
                   IF m.selectedCodec > 0 THEN [m EXCEPT !.selectedCodec = @ - 1] ELSE m
              [] key = "down" -> [m EXCEPT !.selectedCodec = @ + 1]
              [] key = "enter" ->
                   IF Len(options) = 0 THEN m
                   ELSE IF FLeq(m.targetSizeMB, F0)
                     THEN [m EXCEPT !.state = stateSelectCRF]
                     ELSE [m EXCEPT !.state = stateSelectQuality]
  /\ UNCHANGED <<textInput, quit, quitMsg, cancelled, pipeVars>>

UpdateSelectCodec(key) ==
  /\ ~quit
  /\ m.state = stateSelectCodec
  /\ key \in {"up", "down", "enter"}
  /\ LET hw      == hardwareOptions[m.selectedHW + 1]
         options == CodecOptions(hw, m.outputMode)
     IN  m' = CASE key = "up" ->
                   IF m.selectedCodec > 0 THEN [m EXCEPT !.selectedCodec = @ - 1] ELSE m
              [] key = "down" ->
                   IF m.selectedCodec < Len(options) - 1
                     THEN [m EXCEPT !.selectedCodec = @ + 1] ELSE m
              [] key = "enter" ->
                   IF Len(options) = 0 THEN m
                   ELSE IF FLeq(m.targetSizeMB, F0)
                     THEN [m EXCEPT !.state = stateSelectCRF]
                     ELSE [m EXCEPT !.state = stateSelectQuality]
  /\ UNCHANGED <<textInput, quit, quitMsg, cancelled, pipeVars>>

\* mutant: "left" decrements the CRF level without testing it
UpdateSelectCRF_NoLowerBound(key) ==
  /\ ~quit
  /\ m.state = stateSelectCRF
  /\ key \in {"left", "right", "enter"}
  /\ m' = CASE key = "left" -> [m EXCEPT !.crfLevel = @ - 1]
            [] key = "right" ->
                 IF m.crfLevel < 10 THEN [m EXCEPT !.crfLevel = @ + 1] ELSE m
            [] key = "enter" -> [m EXCEPT !.state = stateSelectQuality]
  /\ UNCHANGED <<textInput, quit, quitMsg, cancelled, pipeVars>>

UpdateSelectCRF(key) ==
  /\ ~quit
  /\ m.state = stateSelectCRF
  /\ key \in {"left", "right", "enter"}
  /\ m' = CASE key = "left" ->
                 IF m.crfLevel > 0 THEN [m EXCEPT !.crfLevel = @ - 1] ELSE m
            [] key = "right" ->
                 IF m.crfLevel < 10 THEN [m EXCEPT !.crfLevel = @ + 1] ELSE m
            [] key = "enter" ->
                 [m EXCEPT !.state = stateSelectQuality]
  /\ UNCHANGED <<textInput, quit, quitMsg, cancelled, pipeVars>>

\* mutant: Enter starts the job but leaves the wizard at the quality step
UpdateSelectQuality_StaysInWizard(key) ==
  /\ ~quit
  /\ m.state = stateSelectQuality
  /\ key \in {"left", "right", "enter"}
  /\ UNCHANGED <<textInput, quit, quitMsg, cancelled>>
  /\ IF key = "enter"
     THEN LET hw       == hardwareOptions[m.selectedHW + 1]
              options  == CodecOptions(hw, m.outputMode)
              codecCfg == options[m.selectedCodec + 1]
          IN  /\ m' = m
              /\ StartJob(m, hw, codecCfg)
     ELSE /\ m' = CASE key = "left" ->
                        IF m.qualityLevel > 0 THEN [m EXCEPT !.qualityLevel = @ - 1] ELSE m
                   [] key = "right" ->
                        IF m.qualityLevel < 4 THEN [m EXCEPT !.qualityLevel = @ + 1] ELSE m
          /\ UNCHANGED pipeVars

UpdateSelectQuality(key) ==
  /\ ~quit
  /\ m.state = stateSelectQuality
  /\ key \in {"left", "right", "enter"}
  /\ UNCHANGED <<textInput, quit, quitMsg, cancelled>>
  /\ IF key = "enter"
     THEN LET hw       == hardwareOptions[m.selectedHW + 1]
              options  == CodecOptions(hw, m.outputMode)
              codecCfg == options[m.selectedCodec + 1]
              mm       == [m EXCEPT !.state = stateProcessing]
          IN  /\ m' = mm
              /\ StartJob(mm, hw, codecCfg)
     ELSE /\ m' = CASE key = "left" ->
                        IF m.qualityLevel > 0 THEN [m EXCEPT !.qualityLevel = @ - 1] ELSE m
                   [] key = "right" ->
                        IF m.qualityLevel < 4 THEN [m EXCEPT !.qualityLevel = @ + 1] ELSE m
          /\ UNCHANGED pipeVars

(***************************************************************************)
(* The startEncoding goroutine.                                            *)
(***************************************************************************)
\* no document: the zero value of FFProbeOutput
NoDoc ==
  [duration |-> <<>>, hasAudio |-> FALSE]

Proc(cmd, stage) ==
  [cmd |-> cmd, stage |-> stage, status |-> "running", code |-> 0,
   doc |-> NoDoc, stderr |-> ""]

LastProc ==
  procs[Len(procs)]

\* mutant: the error of probeFile is dropped
probeFileErr_Ignored(p) ==
  FALSE

\* mutant: the error of runFFmpeg is dropped
runFFmpegErr_Ignored(p) ==
  FALSE

\* probeFile returns err != nil when ffprobe exits nonzero
probeFileErr(p) ==
  p.code # 0

\* runFFmpeg returns err != nil when cmd.Wait reports a nonzero exit
runFFmpegErr(p) ==
  p.code # 0

\* ch <- msg on the unbuffered channel: completes only together with the
\* receive of a blocked waitForProgress command, whose return value the
\* runtime then delivers to Update
Send(msg) ==
  /\ armed > 0
  /\ ~closed
  /\ armed' = armed - 1
  /\ progInflight' = Append(progInflight, msg)
  /\ sent' = Append(sent, msg)

\* mutant: the palette image is not removed by a deferred call
DeferredRemovals_None(l) ==
  {}

\* files the deferred calls of the closure remove when it returns
DeferredRemovals(l) ==
  IF l.paletteFile # "" THEN {l.paletteFile} ELSE {}

\* mutant: the closure returns without the deferred close(progressChan)
Return_NoClose(msg, files) ==
  /\ disk' = files \ DeferredRemovals(loc)
  /\ closed' = closed
  /\ doneInflight' = Append(doneInflight, msg)
  /\ result' = <<msg>>
  /\ pc' = Pc(pc.stage, "returned", 0)

\* return msg: the deferred os.Remove(paletteFile) and close(progressChan)
\* run, and the runtime takes the returned message
Return(msg, files) ==
  /\ disk' = files \ DeferredRemovals(loc)
  /\ closed' = TRUE
  /\ doneInflight' = Append(doneInflight, msg)
  /\ result' = <<msg>>
  /\ pc' = Pc(pc.stage, "returned", 0)

\* progressChan <- progressMsg{line: "Analyzing file...", progress: 0}
PipeSendAnalyzing ==
  /\ ~quit
  /\ pc.step = "analyzing"
  /\ Send(progressMsg(Label("Analyzing file..."), F0, <<>>))
  /\ pc' = Pc(StageProbe, "start", 0)
  /\ UNCHANGED <<cancelled, result, m, textInput, quit, quitMsg, job, loc, closed, doneInflight,
                 procs, disk, handled>>

\* probeFile: exec.Command("ffprobe", ...).Output() starts the process ...
PipeProbeStart(ok) ==
  /\ ~quit
  /\ pc = Pc(StageProbe, "start", 0)
  /\ IF ok
     THEN /\ procs' = Append(procs, Proc(probeCmd, StageProbe))
          /\ pc' = Pc(StageProbe, "wait", 0)
          /\ UNCHANGED <<closed, doneInflight, disk, result>>
     ELSE /\ Return(workDoneMsg("", "", Err("exec: start failed", 0, "")), disk)
          /\ UNCHANGED procs
  /\ UNCHANGED <<cancelled, m, textInput, quit, quitMsg, job, loc, armed, progInflight, sent,
                 handled>>

\* the locals computed between the probe and the first stage
LocalsAfterProbe(info, kbit) ==
  [duration    |-> Duration(job, info),
   hasAudio    |-> info.hasAudio,
   videoKBit   |-> kbit,
   paletteFile |-> IF job.mode = modeGIF THEN PaletteFile ELSE "",
   passLog     |-> IF job.mode \notin {modeGIF, modeAPNG} /\ isCPU(job) THEN PassLog ELSE "",
   lines       |-> 0,
   pending     |-> <<>>]

\* ... and waits for it; on success startEncoding computes its plan up to
\* the first send of the first stage
PipeProbeWait ==
  /\ ~quit
  /\ pc = Pc(StageProbe, "wait", 0)
  /\ LastProc.status = "exited"
  /\ IF probeFileErr(LastProc)
     THEN /\ Return(workDoneMsg("", "", Err("exit status", LastProc.code, "")), disk)
          /\ UNCHANGED loc
     ELSE /\ \E kbit \in (IF job.mode \in {modeGIF, modeAPNG} THEN {I0}
                          ELSE VideoKBits(job, Duration(job, LastProc.doc),
                                          LastProc.doc.hasAudio)) :
               loc' = LocalsAfterProbe(LastProc.doc, kbit)
          /\ pc' = Pc(FirstStage(job), "pre", 1)
          /\ UNCHANGED <<closed, doneInflight, disk, result>>
  /\ UNCHANGED <<cancelled, m, textInput, quit, quitMsg, job, armed, progInflight, procs, sent,
                 handled>>

\* the sends that precede a stage's runFFmpeg call
PipeSendPre ==
  /\ ~quit
  /\ pc.step = "pre"
  /\ \E msgs \in {PreMsgs(job, loc, pc.stage)} :
         /\ Send(msgs[pc.k])
         /\ pc' = IF pc.k = Len(msgs) THEN Pc(pc.stage, "start", 0)
                  ELSE Pc(pc.stage, "pre", pc.k + 1)
  /\ UNCHANGED <<cancelled, result, m, textInput, quit, quitMsg, job, loc, closed, doneInflight,
                 procs, disk, handled>>

\* runFFmpeg: cmd.StdoutPipe and cmd.Start
PipeStart(ok) ==
  /\ ~quit
  /\ pc.step = "start"
  /\ pc.stage # StageProbe
  /\ IF ok
     THEN /\ procs' = Append(procs, Proc(StageCmd(job, loc, pc.stage), pc.stage))
          /\ pc' = Pc(pc.stage, "scan", 0)
          /\ loc' = [loc EXCEPT !.lines = 0]
          /\ UNCHANGED <<closed, doneInflight, disk, result>>
     ELSE /\ Return(workDoneMsg("", "", Err("exec: start failed", 0, "")), disk)
          /\ UNCHANGED <<procs, loc>>
  /\ UNCHANGED <<cancelled, m, textInput, quit, quitMsg, job, armed, progInflight, sent, handled>>

\* bufio.Scanner: a line that fills the buffer of MaxScanTokenSize bytes
\* before its line break is not a token
TooLong(line) ==
  Len(line) >= MaxScanTokenSize

\* dropCR of bufio.ScanLines: the token is the line without one trailing
\* carriage return
DropCR(line) ==
  IF Len(line) > 0 /\ line[Len(line)] = "\r" THEN SubSeq(line, 1, Len(line) - 1) ELSE line

\* runFFmpeg: scanner.Scan() on the next line the process has written,
\* read `elapsed` seconds after the process was started.  The pipe holds
\* what was written until it is read, whether or not the process has
\* closed its output since.  On a line that is no token Scan returns false
\* with ErrTooLong: the loop ends as at the end of the stream, the error
\* is not looked at, and runFFmpeg goes on to cmd.Wait().
ScanLine(line, elapsed) ==
  /\ ~quit
  /\ pc.step = "scan"
  /\ IF TooLong(line)
     THEN /\ loc' = [loc EXCEPT !.lines = @ + 1]
          /\ pc' = Pc(pc.stage, "wait", 0)
     ELSE \E sample \in LineSample(DropCR(line), loc.duration, pc.stage, elapsed) :
            /\ loc' = [loc EXCEPT !.lines = @ + 1, !.pending = sample]
            /\ pc' = IF sample = <<>> THEN pc ELSE Pc(pc.stage, "sample", 0)
  /\ UNCHANGED <<cancelled, result, m, textInput, quit, quitMsg, job, closed, armed, progInflight, doneInflight,
                 procs, disk, sent, handled>>

PipeScanLine ==
  /\ pc.step = "scan"
  /\ loc.lines < MaxLines
  /\ \E line \in ProgressLines, elapsed \in ElapsedSecs : ScanLine(line, elapsed)

\* runFFmpeg: ch <- progressMsg{...}
PipeSendSample ==
  /\ ~quit
  /\ pc.step = "sample"
  /\ Send(loc.pending[1])
  /\ loc' = [loc EXCEPT !.pending = <<>>]
  /\ pc' = Pc(pc.stage, "scan", 0)
  /\ UNCHANGED <<cancelled, result, m, textInput, quit, quitMsg, job, closed, doneInflight,
                 procs, disk, handled>>

\* runFFmpeg: scanner.Scan() returns false at the end of the stream
PipeScanEOF ==
  /\ ~quit
  /\ pc.step = "scan"
  /\ LastProc.status \in {"eof", "exited"}
  /\ pc' = Pc(pc.stage, "wait", 0)
  /\ UNCHANGED <<cancelled, result, m, textInput, quit, quitMsg, job, loc, closed, armed, progInflight, doneInflight,
                 procs, disk, sent, handled>>

\* mutant: runFFmpeg returns at the end of the stream without cmd.Wait()
WaitReturned_NoWait(p) ==
  TRUE

\* cmd.Wait() returns only when the process has exited
WaitReturned(p) ==
  p.status = "exited"

\* files removed by startEncoding itself after `stage` succeeded
RemovedAfter(stage) ==
  IF stage = StagePass2 THEN PassLogFiles ELSE {}

\* runFFmpeg: cmd.Wait(), and what startEncoding does with the result:
\* return the error, go on to the next stage, or finish
PipeWait ==
  /\ ~quit
  /\ pc.step = "wait"
  /\ pc.stage # StageProbe
  /\ WaitReturned(LastProc)
  /\ IF runFFmpegErr(LastProc)
     THEN Return(workDoneMsg("", "", Err("exit status", LastProc.code, LastProc.stderr)),
                 disk)
     ELSE IF NextStage(pc.stage) # ""
     THEN /\ pc' = Pc(NextStage(pc.stage), "pre", 1)
          /\ UNCHANGED <<closed, doneInflight, disk, result>>
     ELSE LET files == disk \ RemovedAfter(pc.stage)
          IN  Return(finishWork(outputFile(job), files), files)
  /\ UNCHANGED <<cancelled, m, textInput, quit, quitMsg, job, loc, armed, progInflight, procs,
                 sent, handled>>

(***************************************************************************)
(* Subprocesses (environment).                                             *)
(***************************************************************************)
\* the files a process writes
Artifacts(p) ==
  IF p.cmd.prog = "ffprobe" \/ p.cmd.out = nullOut
  THEN (IF p.cmd.pass = 1
          THEN {"pass-0.log"} \cup
               (IF p.cmd.cv = "libx264" THEN {"pass-0.log.mbtree"} ELSE {})
          ELSE {})
  ELSE {p.cmd.out}

\* a process closes its standard output ...
ProcEOF(i) ==
  /\ i \in 1..Len(procs)
  /\ procs[i].status = "running"
  /\ procs' = [procs EXCEPT ![i].status = "eof"]
  /\ UNCHANGED <<cancelled, result, m, textInput, quit, quitMsg, job, pc, loc, closed, armed, progInflight,
                 doneInflight, disk, sent, handled>>

\* ... and exits.  Exit 0 of ffprobe prints a document.  A palette or
\* pass-1 process that exits 0 has written its files, one that fails may
\* or may not have.  The file of a process that writes the output may be
\* missing after exit 0 (it can be gone by the time it is looked at); what
\* a failed one leaves of the output is not tracked.
ProcExit(i, code, wrote, doc) ==
  /\ i \in 1..Len(procs)
  /\ procs[i].status = "eof"
  /\ code \in ExitCodes
  /\ wrote \in BOOLEAN
  /\ doc \in ProbeDocs
  /\ LET p     == procs[i]
         temp  == p.stage \in {StagePalette, StagePass1}
         probe == p.stage = StageProbe
     IN  /\ (probe \/ (temp /\ code = 0)) => wrote
         /\ (~probe /\ ~temp /\ code # 0) => ~wrote
         /\ (probe /\ code = 0) \/ doc = NoDoc
         /\ procs' = [procs EXCEPT ![i].status = "exited", ![i].code = code,
                                   ![i].doc = doc,
                                   ![i].stderr = IF code # 0 THEN StderrText ELSE ""]
         /\ disk' = IF wrote THEN disk \cup Artifacts(p) ELSE disk
  /\ UNCHANGED <<cancelled, result, m, textInput, quit, quitMsg, job, pc, loc, closed, armed, progInflight,
                 doneInflight, sent, handled>>

(***************************************************************************)
(* waitForProgress and model.Update on the messages of the job.            *)
(***************************************************************************)
\* mutant: the progress handler starts two waitForProgress commands
Rearm_Twice(n) ==
  n + 2

\* mutant: the progress handler returns no command
Rearm_None(n) ==
  n

\* return m, waitForProgress(m.progressChan): one more blocked receive
Rearm(n) ==
  n + 1

\* <-sub returns ok = false on the closed channel: the command returns nil
WaitForProgressClosed ==
  /\ ~quit
  /\ closed
  /\ armed > 0
  /\ armed' = armed - 1
  /\ UNCHANGED <<cancelled, result, m, textInput, quit, quitMsg, job, pc, loc, closed, progInflight, doneInflight,
                 procs, disk, sent, handled>>

\* case progressMsg: the runtime hands over any message it holds
UpdateProgress(i) ==
  /\ ~quit
  /\ i \in 1..Len(progInflight)
  /\ LET msg == progInflight[i]
     IN  /\ m' = [m EXCEPT !.currentLog = msg.line,
                           !.percent = IF FLess(F0, msg.progress)
                                         THEN msg.progress ELSE @,
                           !.currentCmd = IF msg.debugCmd # <<>> THEN msg.debugCmd ELSE @]
         /\ handled' = Append(handled, msg)
  /\ progInflight' = [j \in 1..(Len(progInflight) - 1) |->
                        IF j < i THEN progInflight[j] ELSE progInflight[j + 1]]
  /\ armed' = Rearm(armed)
  /\ UNCHANGED <<cancelled, result, textInput, quit, quitMsg, job, pc, loc, closed,
                 doneInflight, procs, disk, sent>>

\* case workDoneMsg
UpdateWorkDone ==
  /\ ~quit
  /\ doneInflight # <<>>
  /\ LET msg == doneInflight[1]
     IN  m' = IF ~IsNil(msg.err)
              THEN [m EXCEPT !.state = stateError, !.err = msg.err]
              ELSE [m EXCEPT !.state = stateDone, !.outputFile = msg.outputFile,
                             !.finalSize = msg.finalSize]
  /\ doneInflight' = Tail(doneInflight)
  /\ quitMsg' = TRUE
  /\ UNCHANGED <<cancelled, result, textInput, quit, job, pc, loc, closed, armed, progInflight, procs, disk,
                 sent, handled>>

\* Spec follows the jobs started with the sliders left where initialModel
\* put them; the slider keys are a separate concern of the wizard.
SliderKeys ==
  {"enter"}

Next ==
  \/ UpdateKeyQuit
  \/ HandleQuitMsg
  \/ \E t \in PathTexts \cup SizeTexts \cup ResTexts \cup FPSTexts : UpdateKeyText(t)
  \/ UpdateInputFileEnter
  \/ UpdateInputSizeEnter
  \/ UpdateInputResEnter
  \/ UpdateFPSEnter
  \/ \E key \in {"up", "down", "enter"} : UpdateSelectHW(key)
  \/ \E key \in {"up", "down", "enter"} : UpdateSelectCodec(key)
  \/ \E key \in SliderKeys : UpdateSelectCRF(key)
  \/ \E key \in SliderKeys : UpdateSelectQuality(key)
  \/ PipeSendAnalyzing
  \/ \E ok \in BOOLEAN : PipeProbeStart(ok)
  \/ PipeProbeWait
  \/ PipeSendPre
  \/ \E ok \in BOOLEAN : PipeStart(ok)
  \/ PipeScanLine
  \/ PipeSendSample
  \/ PipeScanEOF
  \/ PipeWait
  \/ \E i \in 1..Len(procs) : ProcEOF(i)
  \/ \E i \in 1..Len(procs), code \in ExitCodes, wrote \in BOOLEAN, doc \in ProbeDocs :
       ProcExit(i, code, wrote, doc)
  \/ WaitForProgressClosed
  \/ \E i \in 1..Len(progInflight) : UpdateProgress(i)
  \/ UpdateWorkDone

Spec ==
  Init /\ [][Next]_vars

(***************************************************************************)
(* The bitrate resolver on its own: startEncoding from the moment ffprobe  *)
(* has exited 0, for a range of size targets and probed documents.         *)
(***************************************************************************)
\* size targets typed at the size step
RateSizeTexts ==
  {<<"0",".","5">>, <<"1">>, <<"2">>, <<"3">>, <<"5">>, <<"1","0">>}

RateSizes ==
  {ParseFloat(t).val : t \in RateSizeTexts}

\* format.duration of the probed document
RateDurations ==
  {<<"1">>, <<"2",".","5">>, <<"1","0",".","0","0","0","0","0","0">>, <<"1","2",".","1","6","0","0","0","0">>,
   <<"1","9",".","0","0","0","0","0","0">>, <<"6","0">>, <<"6","0","0">>,
   <<"3","6","0","0">>}

RateBackends ==
  {hwCPU, hwNVIDIA}

\* a video job on the first codec of the backend, sliders at their defaults
RateJob(size, hw) ==
  [NoJob EXCEPT !.targetMB = size, !.hw = hw, !.codecCfg = encoderMap[hw][1],
                !.mode = modeVideo, !.quality = 2, !.crfSlider = 5]

ExitedProbe(doc) ==
  [Proc(probeCmd, StageProbe) EXCEPT !.status = "exited", !.doc = doc]

\* the index of x in seq
IndexIn(seq, x) ==
  CHOOSE i \in 1..Len(seq) : seq[i] = x

\* the model Update leaves when it starts job j: the wizard's cursors are
\* where the backend and the codec of the job were chosen
StartedModel(j) ==
  [initialModel(j.mode, <<j.trimStart, j.trimEnd>>, j.customOut, TRUE) EXCEPT
     !.state = stateProcessing, !.targetSizeMB = j.targetMB,
     !.targetRes = j.resInput, !.targetFPS = j.fpsInput,
     !.selectedHW = IF j.mode \in {modeGIF, modeAPNG} THEN 0
                    ELSE IndexIn(hardwareOptions, j.hw) - 1,
     !.selectedCodec = IF j.mode \in {modeGIF, modeAPNG} THEN 0
                       ELSE IndexIn(CodecOptions(j.hw, j.mode), j.codecCfg) - 1,
     !.qualityLevel = j.quality, !.crfLevel = j.crfSlider]

AnalyzingMsg ==
  progressMsg(Label("Analyzing file..."), F0, <<>>)

\* the state in which ffprobe has exited 0 and printed doc: the first
\* message has been sent and handled
ProbedInit(doc) ==
  /\ procs = <<ExitedProbe(doc)>>
  /\ m = [StartedModel(job) EXCEPT !.currentLog = AnalyzingMsg.line]
  /\ textInput = job.fpsInput
  /\ quitMsg = FALSE
  /\ quit = FALSE
  /\ pc = Pc(StageProbe, "wait", 0)
  /\ loc = NoLoc
  /\ closed = FALSE
  /\ armed = 1
  /\ progInflight = <<>>
  /\ doneInflight = <<>>
  /\ disk = {}
  /\ sent = <<AnalyzingMsg>>
  /\ handled = sent
  /\ result = <<>>
  /\ cancelled = FALSE

RateInit ==
  \E size \in RateSizes, hw \in RateBackends, d \in RateDurations, a \in BOOLEAN :
    /\ job = RateJob(size, hw)
    /\ ProbedInit([duration |-> d, hasAudio |-> a])

RateNext ==
  PipeProbeWait

SpecRate ==
  RateInit /\ [][RateNext]_vars

(***************************************************************************)
(* The progress monitor on its own: one runFFmpeg call from the moment the *)
(* subprocess has been started, for a range of total durations, lines and  *)
(* wall-clock readings.                                                    *)
(***************************************************************************)
\* lines read from the subprocess in one runFFmpeg call
MaxMonitorLines == 2

LineNegative ==
  <<"o","u","t","_","t","i","m","e","_","u","s","=","-","5","0","0","0","0","0","0">>

LineOver ==
  <<"o","u","t","_","t","i","m","e","_","u","s","=","2","0","0","0","0","0","0","0">>

LineUnparsable ==
  <<"o","u","t","_","t","i","m","e","_","u","s","=","N","/","A">>

LineEarly ==
  <<"o","u","t","_","t","i","m","e","_","u","s","=","5","0","0","0","0">>

LineNoEquals ==
  <<"o","u","t","_","t","i","m","e","_","u","s">>

LineTwoEquals ==
  <<"o","u","t","_","t","i","m","e","_","u","s","=","1","=","2">>

\* a progress line that ends in a carriage return
LineOutTimeCR ==
  LineOutTime \o <<"\r">>

\* 0.100001 s into the output
LineJustOver ==
  <<"o","u","t","_","t","i","m","e","_","u","s","=","1","0","0","0","0","1">>

MonitorLines ==
  {LineOutTime, LineNegative, LineOver, LineUnparsable, LineEarly, LineFrame,
   LineNoEquals, LineTwoEquals, LineOutTimeCR, LineJustOver, LineTooLong}

\* format.duration of the probed document (<<>>: the probe reported none)
MonitorDurations ==
  {<<>>, <<"4">>, <<"1","0">>}

\* time.Since(startTime).Seconds() when a line is read: up to three years
MonitorElapsed ==
  {F0, FInt(7), FInt(90), FInt(1000), FInt(100000000)}

MonitorJob ==
  [NoJob EXCEPT !.hw = hwCPU, !.codecCfg = encoderMap[hwCPU][5], !.mode = modeVideo,
                !.quality = 2, !.crfSlider = 5]

\* the state in which runFFmpeg has started the subprocess of the only
\* stage of the job: the two messages sent so far have been handled
MonitorInit ==
  /\ job = MonitorJob
  /\ \E d \in MonitorDurations, a \in BOOLEAN :
       /\ loc = LocalsAfterProbe([duration |-> d, hasAudio |-> a], I0)
       /\ procs = <<ExitedProbe([duration |-> d, hasAudio |-> a]),
                    Proc(StageCmd(job, loc, StageCRF), StageCRF)>>
  /\ sent = <<AnalyzingMsg>> \o PreMsgs(job, loc, StageCRF)
  /\ handled = sent
  /\ m = [StartedModel(job) EXCEPT !.currentLog = NoLine,
                                   !.currentCmd = <<StageCmd(job, loc, StageCRF)>>]
  /\ textInput = <<>>
  /\ quitMsg = FALSE
  /\ quit = FALSE
  /\ pc = Pc(StageCRF, "scan", 0)
  /\ closed = FALSE
  /\ armed = 1
  /\ progInflight = <<>>
  /\ doneInflight = <<>>
  /\ disk = {}
  /\ result = <<>>
  /\ cancelled = FALSE

MonitorScanLine ==
  /\ pc.step = "scan"
  /\ loc.lines < MaxMonitorLines
  /\ \E line \in MonitorLines, elapsed \in MonitorElapsed : ScanLine(line, elapsed)

MonitorNext ==
  \/ MonitorScanLine
  \/ PipeSendSample
  \/ \E i \in 1..Len(progInflight) : UpdateProgress(i)
  \/ \E i \in 1..Len(procs) : ProcEOF(i)
  \/ PipeScanEOF

SpecMonitor ==
  MonitorInit /\ [][MonitorNext]_vars

(***************************************************************************)
(* The wizard on its own: every key of every step, up to the start of the  *)
(* job.                                                                    *)
(***************************************************************************)
ListKeys ==
  {"up", "down", "enter"}

AllSliderKeys ==
  {"left", "right", "enter"}

WizardNext ==
  \/ UpdateKeyQuit
  \/ HandleQuitMsg
  \/ \E t \in PathTexts \cup SizeTexts \cup ResTexts \cup FPSTexts : UpdateKeyText(t)
  \/ UpdateInputFileEnter
  \/ UpdateInputSizeEnter
  \/ UpdateInputResEnter
  \/ UpdateFPSEnter
  \/ \E key \in ListKeys : UpdateSelectHW(key)
  \/ \E key \in ListKeys : UpdateSelectCodec(key)
  \/ \E key \in AllSliderKeys : UpdateSelectCRF(key)
  \/ \E key \in AllSliderKeys : UpdateSelectQuality(key)

SpecWizard ==
  Init /\ [][WizardNext]_vars

(***************************************************************************)
(* The plan of a job on its own: startEncoding from the moment ffprobe has *)
(* exited 0 to the launch of the first palette or encode subprocess, for   *)
(* every backend, codec, quality level and CRF level, and for a range of   *)
(* resolution texts.                                                       *)
(***************************************************************************)
QualityLevels ==
  0..4

CrfLevels ==
  0..10

PlanSizes ==
  {F0, FInt(10)}

\* the CRF levels a job of that size target can be started with: the CRF
\* step is passed only without a size target
ReachableCrfLevels(size) ==
  IF FLeq(size, F0) THEN CrfLevels ELSE {5}

\* the jobs the wizard can start in video and AVIF mode
PlanPresetJobs ==
  UNION {
    { [NoJob EXCEPT !.targetMB = size, !.hw = hardwareOptions[h],
                    !.codecCfg = CodecOptions(hardwareOptions[h], mode)[c],
                    !.mode = mode, !.quality = q, !.crfSlider = crf] :
        c \in 1..Len(CodecOptions(hardwareOptions[h], mode)),
        q \in QualityLevels, crf \in ReachableCrfLevels(size) } :
    h \in 1..Len(hardwareOptions), mode \in {modeVideo, modeAVIF}, size \in PlanSizes }

\* texts typed at the resolution step
PlanResTexts ==
  {<<>>, <<"1">>, <<" ","1"," ">>, <<"2">>, <<" ","2"," ">>, <<"3">>, <<"2",".","5">>,
   <<"1",".","1">>, <<"0",".","1">>, <<"0">>, <<"-","2">>, <<"1","2","8","0","x","7","2","0">>,
   <<"6","4","0",":","-","1">>, <<"a","b","c">>}

\* GIF, APNG and H.264 jobs with the sliders at their defaults
PlanScaleJobs ==
  { [NoJob EXCEPT !.resInput = t, !.hw = hwCPU, !.mode = mode,
                  !.codecCfg = CASE mode = modeGIF  -> codecInfo("GIF", "", ".gif")
                                 [] mode = modeAPNG -> codecInfo("APNG", "", ".png")
                                 [] OTHER           -> encoderMap[hwCPU][5],
                  !.quality = 2, !.crfSlider = 5] :
      t \in PlanResTexts, mode \in {modeGIF, modeAPNG, modeVideo} }

PlanDoc ==
  [duration |-> <<"1","0",".","0","0","0","0","0","0">>, hasAudio |-> TRUE]

PlanInit ==
  /\ job \in PlanPresetJobs \cup PlanScaleJobs
  /\ ProbedInit(PlanDoc)

PlanNext ==
  \/ PipeProbeWait
  \/ PipeSendPre
  \/ \E i \in 1..Len(progInflight) : UpdateProgress(i)
  \/ \E ok \in BOOLEAN : PipeStart(ok)

SpecPlan ==
  PlanInit /\ [][PlanNext]_vars

(***************************************************************************)
(* The size step on its own, for a wider range of typed texts.             *)
(***************************************************************************)
\* texts typed at the size step: empty, 10, 0.5, abc, 0, 0.0, -5, " 5",
\* NaN, Inf, -Inf
SizeStepTexts ==
  {<<>>, <<"1","0">>, <<"0",".","5">>, <<"a","b","c">>, <<"0">>, <<"0",".","0">>,
   <<"-","5">>, <<" ","5">>, <<"N","a","N">>, <<"I","n","f">>, <<"-","I","n","f">>}

\* the program was started with an existing input file on the command line
SizeInit ==
  /\ Init
  /\ m.state = stateInputSize

\* printable keys at the size step
SizeKeyText(t) ==
  /\ ~quit
  /\ m.state = stateInputSize
  /\ t \in SizeStepTexts
  /\ textInput' = t
  /\ UNCHANGED <<m, quit, quitMsg, cancelled, pipeVars>>

SizeNext ==
  \/ UpdateKeyQuit
  \/ HandleQuitMsg
  \/ \E t \in SizeStepTexts : SizeKeyText(t)
  \/ UpdateInputSizeEnter

SpecSize ==
  SizeInit /\ [][SizeNext]_vars

(***************************************************************************)
(* A started job under fair scheduling: the goroutine of startEncoding     *)
(* takes its next step when it can, every subprocess closes its output and *)
(* exits, and the UI loop handles the messages it holds.  The user may     *)
(* still press Ctrl-C at any moment.                                       *)
(***************************************************************************)
LiveBackends ==
  {hwCPU, hwNVIDIA}

\* a job of every branch of startEncoding: GIF, APNG, and video and AVIF
\* on a CPU and a hardware backend, with and without a size target
LiveJobs ==
  { [NoJob EXCEPT !.targetMB = size, !.hw = hwCPU, !.mode = mode,
                  !.codecCfg = IF mode = modeGIF THEN codecInfo("GIF", "", ".gif")
                               ELSE codecInfo("APNG", "", ".png"),
                  !.quality = 2, !.crfSlider = 5] :
      size \in PlanSizes, mode \in {modeGIF, modeAPNG} }
  \cup
  { [NoJob EXCEPT !.targetMB = size, !.hw = hw, !.mode = mode,
                  !.codecCfg = CodecOptions(hw, mode)[1],
                  !.quality = 2, !.crfSlider = 5] :
      size \in PlanSizes, hw \in LiveBackends, mode \in {modeVideo, modeAVIF} }

\* the state Update leaves when it starts the job
StartedInit ==
  /\ m = StartedModel(job)
  /\ textInput = job.fpsInput
  /\ quitMsg = FALSE
  /\ quit = FALSE
  /\ pc = Pc(StageProbe, "analyzing", 0)
  /\ loc = NoLoc
  /\ closed = FALSE
  /\ armed = 1
  /\ progInflight = <<>>
  /\ doneInflight = <<>>
  /\ procs = <<>>
  /\ disk = {}
  /\ sent = <<>>
  /\ handled = <<>>
  /\ result = <<>>
  /\ cancelled = FALSE

LiveInit ==
  /\ job \in LiveJobs
  /\ StartedInit

\* the step PipeProbeWait, told by where it starts and where it leaves
\* the goroutine: it is enabled whenever ffprobe has exited, whatever the
\* arithmetic of the plan yields
ProbeWaitStep ==
  /\ ~quit
  /\ pc = Pc(StageProbe, "wait", 0)
  /\ LastProc.status = "exited"
  /\ pc' \in {Pc(FirstStage(job), "pre", 1), Pc(StageProbe, "returned", 0)}

\* the step PipeSendPre, told the same way: the send completes whenever a
\* waitForProgress command is blocked on the open channel, whatever the
\* message holds
PreSendStep ==
  /\ ~quit
  /\ pc.step = "pre"
  /\ armed > 0
  /\ ~closed
  /\ pc' \in {Pc(pc.stage, "start", 0), Pc(pc.stage, "pre", pc.k + 1)}

\* the steps of the startEncoding goroutine that wait for nothing but the
\* scheduler, a receiver or an exited subprocess
LivePipeStep ==
  \/ PipeSendAnalyzing
  \/ \E ok \in BOOLEAN : PipeProbeStart(ok)
  \/ ProbeWaitStep
  \/ PreSendStep
  \/ \E ok \in BOOLEAN : PipeStart(ok)
  \/ PipeSendSample
  \/ PipeScanEOF
  \/ PipeWait

LiveProcStep ==
  \/ \E i \in 1..Len(procs) : ProcEOF(i)
  \/ \E i \in 1..Len(procs), code \in ExitCodes, wrote \in BOOLEAN, doc \in ProbeDocs :
       ProcExit(i, code, wrote, doc)

LiveProgressStep ==
  \/ \E i \in 1..Len(progInflight) : UpdateProgress(i)
  \/ WaitForProgressClosed

LiveNext ==
  \/ UpdateKeyQuit
  \/ HandleQuitMsg
  \/ PipeSendAnalyzing
  \/ \E ok \in BOOLEAN : PipeProbeStart(ok)
  \/ PipeProbeWait
  \/ PipeSendPre
  \/ \E ok \in BOOLEAN : PipeStart(ok)
  \/ PipeSendSample
  \/ PipeScanEOF
  \/ PipeWait
  \/ PipeScanLine
  \/ LiveProcStep
  \/ LiveProgressStep
  \/ UpdateWorkDone

SpecLive ==
  /\ LiveInit
  /\ [][LiveNext]_vars
  /\ WF_pc(LivePipeStep)
  /\ WF_vars(LiveProcStep)
  /\ WF_vars(LiveProgressStep)
  /\ WF_vars(UpdateWorkDone)

(***************************************************************************)
(* Whole jobs for a range of -trim arguments.                              *)
(***************************************************************************)
\* -trim start end of the command line: none; seconds with the suffix;
\* H:M:S and M:S; fractions of a second; a non-zero hour field; end before
\* start; an empty range; no end
TrimPairs ==
  { << <<>>, <<>> >>,
    << <<"1","s">>, <<"5","s">> >>,
    << <<"0","0",":","0","1",":","0","0">>, <<"0","0",":","0","2",":","0","0">> >>,
    << <<"1",":","3","0">>, <<"2",":","0","0">> >>,
    << <<"1",".","2">>, <<"2",".","2">> >>,
    << <<"0","1",":","0","0",":","0","0">>, <<"0","1",":","0","1",":","0","0">> >>,
    << <<"1",":","0","1",":","0","1",".","5">>, <<"1",":","0","1",":","0","3">> >>,
    << <<"5","s">>, <<"1","s">> >>,
    << <<"2">>, <<"2">> >>,
    << <<"1","s">>, <<>> >> }

\* a GIF job, and video jobs with a size target on the CPU (two passes)
\* and on a hardware backend
TrimJobs ==
  { [j EXCEPT !.trimStart = t[1], !.trimEnd = t[2]] :
      t \in TrimPairs,
      j \in { [NoJob EXCEPT !.hw = hwCPU, !.mode = modeGIF,
                            !.codecCfg = codecInfo("GIF", "", ".gif"),
                            !.quality = 2, !.crfSlider = 5],
              [RateJob(FInt(10), hwCPU) EXCEPT !.codecCfg = encoderMap[hwCPU][5]],
              RateJob(FInt(10), hwNVIDIA) } }

TrimInit ==
  /\ job \in TrimJobs
  /\ StartedInit

SpecTrim ==
  TrimInit /\ [][LiveNext]_vars

(***************************************************************************)
(* Vocabulary of the properties.                                           *)
(***************************************************************************)
JobStarted ==
  pc.step # "idle"

JobReturned ==
  pc.step = "returned"

JobSucceeded ==
  JobReturned /\ result # <<>> /\ IsNil(result[1].err)

JobFailed ==
  JobReturned /\ result # <<>> /\ ~IsNil(result[1].err)

\* the encode subprocesses: every launch but the probe and the palette
IsEncode(p) ==
  p.stage \notin {StageProbe, StagePalette}

EncodeProcs ==
  SelectSeq(procs, IsEncode)

SizeTargetSet ==
  FLess(F0, job.targetMB)

CpuBackend ==
  job.hw = hwCPU

TwoPasses ==
  /\ Len(EncodeProcs) = 2
  /\ EncodeProcs[1].cmd.pass = 1
  /\ EncodeProcs[2].cmd.pass = 2

OnePass ==
  /\ Len(EncodeProcs) = 1
  /\ EncodeProcs[1].cmd.pass = 0

IsPrefix(a, b) ==
  Len(a) <= Len(b) /\ SubSeq(b, 1, Len(a)) = a

(***************************************************************************)
(* C1.  Pass count of a successful job.                                    *)
(***************************************************************************)
\* C1 as stated: a job that ran to success launched -pass 1 then -pass 2
\* iff the backend is the CPU, a size target is set and the output is not
\* palette-based (not GIF); every other job launched exactly one encode.
\* Refuted by an APNG job with a size target: one encode on the CPU backend.
C1_TwoPassIffCpuSizedNonPalette ==
  JobSucceeded =>
    IF CpuBackend /\ SizeTargetSet /\ job.mode # modeGIF THEN TwoPasses ELSE OnePass

\* C1 amended: a job that ran to success launched -pass 1 then -pass 2 iff
\* the backend is the CPU, a size target is set and the output mode is
\* video or AVIF; every other job launched exactly one encode subprocess.
C1_TwoPassIffCpuSizedVideoOrAvif ==
  JobSucceeded =>
    IF CpuBackend /\ SizeTargetSet /\ job.mode \in {modeVideo, modeAVIF}
    THEN TwoPasses ELSE OnePass

C1_Witness ==
  JobSucceeded /\ CpuBackend /\ SizeTargetSet /\ job.mode = modeVideo /\ TwoPasses

(***************************************************************************)
(* C2.  The two passes of a sized CPU job.                                 *)
(***************************************************************************)
BothPassesAgree ==
  /\ TwoPasses
  /\ EncodeProcs[1].status = "exited" /\ EncodeProcs[1].code = 0
  /\ EncodeProcs[2].cmd.bv = EncodeProcs[1].cmd.bv
  /\ EncodeProcs[2].cmd.bv # <<>>
  /\ EncodeProcs[2].cmd.passlogfile = EncodeProcs[1].cmd.passlogfile
  /\ EncodeProcs[2].cmd.passlogfile # ""

\* a pass-1 and a pass-2 subprocess have both exited 0
BothPassesSucceeded ==
  \A n \in {1, 2} :
    \E i \in 1..Len(procs) :
      procs[i].cmd.pass = n /\ procs[i].status = "exited" /\ procs[i].code = 0

\* C2: in every sized, CPU, non-palette (non-GIF) job in which both passes
\* have succeeded, exactly two encode subprocesses were invoked, pass 1 and
\* then pass 2; pass 2 was launched only after pass 1 had exited 0, carries
\* the same -b:v and the same -passlogfile as pass 1, and while it runs the
\* statistics file pass 1 wrote is on disk.
C2_SizedCpuNonPaletteHasTwoAgreeingPasses ==
  /\ (CpuBackend /\ SizeTargetSet /\ job.mode # modeGIF /\ BothPassesSucceeded)
       => BothPassesAgree
  /\ \A i \in 1..Len(procs) :
       procs[i].cmd.pass = 2 =>
         /\ i > 1
         /\ procs[i - 1].cmd.pass = 1
         /\ procs[i - 1].status = "exited" /\ procs[i - 1].code = 0
         /\ procs[i].cmd.bv = procs[i - 1].cmd.bv
         /\ procs[i].cmd.passlogfile = procs[i - 1].cmd.passlogfile
         /\ procs[i].cmd.passlogfile # ""
         /\ (procs[i].status # "exited" => "pass-0.log" \in disk)

\* a sized AVIF job on the CPU whose two passes have succeeded
C2_Witness ==
  /\ CpuBackend /\ SizeTargetSet /\ job.mode = modeAVIF /\ BothPassesSucceeded
  /\ BothPassesAgree /\ JobSucceeded

(***************************************************************************)
(* C3.  Quality mode is single-pass.                                       *)
(***************************************************************************)
\* C3: with no size target (targetMB <= 0), for every backend, codec and
\* mode, at most one encode subprocess is launched (exactly one when the
\* job succeeds), no command carries -pass or -passlogfile, and no two-pass
\* statistics file ever exists.
C3_QualityModeSinglePass ==
  (JobStarted /\ ~SizeTargetSet) =>
    /\ Len(EncodeProcs) <= 1
    /\ JobSucceeded => Len(EncodeProcs) = 1
    /\ \A i \in 1..Len(procs) : procs[i].cmd.pass = 0 /\ procs[i].cmd.passlogfile = ""
    /\ disk \cap PassLogFiles = {}

C3_Witness ==
  JobSucceeded /\ ~SizeTargetSet /\ CpuBackend /\ job.mode = modeVideo /\ OnePass

(***************************************************************************)
(* C4.  Two-pass statistics files after the job.                           *)
(***************************************************************************)
\* C4: after a two-pass job has ended, with any outcome, none of the
\* statistics files passLog-0.log, passLog.log, passLog-0.log.mbtree is left.
\* The code removes them only after a successful pass 2.
C4_StatsFilesRemovedOnEveryExit ==
  (JobReturned /\ \E i \in 1..Len(procs) : procs[i].cmd.pass = 1) =>
    disk \cap PassLogFiles = {}

(***************************************************************************)
(* C5.  The palette image after the job.                                   *)
(***************************************************************************)
\* C5: after a GIF job has ended, with any outcome, the temporary palette
\* image is not on disk.
C5_PaletteRemovedOnEveryExit ==
  (JobReturned /\ job.mode = modeGIF) => PaletteFile \notin disk

\* the palette was written and the GIF encode then failed
C5_Witness ==
  /\ JobFailed /\ job.mode = modeGIF
  /\ Len(procs) = 3
  /\ procs[2].stage = StagePalette /\ procs[2].code = 0
  /\ procs[3].stage = StageGIF /\ procs[3].code # 0

(***************************************************************************)
(* C6.  Cancellation.                                                      *)
(***************************************************************************)
\* C6: once the user has cancelled a running job, no subprocess of the job
\* is running and the pipeline is in Failed.  The code returns tea.Quit
\* and does nothing else: the subprocess is left running, and until the
\* program ends the job goes on as if no key had been pressed.
C6_CancelStopsSubprocessAndFails ==
  cancelled =>
    /\ \A i \in 1..Len(procs) : procs[i].status = "exited"
    /\ m.state = stateError

(***************************************************************************)
(* C7.  Delivery of progress samples.                                      *)
(***************************************************************************)
\* C7 as stated: the samples handled are the samples sent, in order, none
\* lost or duplicated, and when the completion message has been handled
\* every sample (the final one included) has been handled before it.
\* Refuted: workDoneMsg and the last progressMsg are returned by two
\* concurrent commands and may be handled in either order.
C7_AllSamplesHandledBeforeCompletion ==
  /\ IsPrefix(handled, sent)
  /\ m.state \in {stateDone, stateError} => handled = sent

\* C7 amended: every sample sent is received by the single consumer, none
\* is duplicated and samples are handled in the order sent; at every
\* moment at most the latest sample sent is not yet handled, so when the
\* completion message is handled every sample but possibly the final one
\* has been handled, and the final one has at least been received.
C7_OrderedDeliveryUpToLastSample ==
  /\ IsPrefix(handled, sent)
  /\ sent = handled \o progInflight
  /\ Len(progInflight) <= 1

C7_Witness ==
  m.state = stateDone /\ Len(sent) >= 4 /\ handled = sent

(***************************************************************************)
(* C8.  One subprocess at a time.                                          *)
(***************************************************************************)
\* C8: at most one subprocess (probe, palette, encode pass) is running at
\* any moment, and a subprocess is launched only after every earlier one
\* has exited.
C8_OneSubprocessAtATime ==
  /\ Cardinality({i \in 1..Len(procs) : procs[i].status # "exited"}) <= 1
  /\ \A i \in 1..(Len(procs) - 1) : procs[i].status = "exited"

C8_Witness ==
  /\ Len(procs) = 3
  /\ procs[2].cmd.pass = 1 /\ procs[3].cmd.pass = 2
  /\ procs[3].status = "running"

(***************************************************************************)
(* C9.  A failed stage fails the job at once.                              *)
(***************************************************************************)
\* C9: once a palette or encode subprocess has exited nonzero, no later
\* subprocess is launched, the pipeline is still in that stage or has
\* returned, the message it returns carries a non-nil error and no final
\* size (finishWork did not run), and the model never enters stateDone;
\* a stage that fails to start ends the job the same way.
C9_FailedStageFailsJob ==
  /\ \A i \in 1..Len(procs) :
       (procs[i].stage # StageProbe /\ procs[i].status = "exited" /\ procs[i].code # 0) =>
         /\ i = Len(procs)
         /\ pc.stage = procs[i].stage
         /\ pc.step \in {"scan", "sample", "wait", "returned"}
         /\ JobReturned =>
              (JobFailed /\ result[1].finalSize = "" /\ result[1].outputFile = "")
         /\ m.state # stateDone
         /\ (m.state = stateError => m.err = result[1].err)
  /\ (JobReturned /\ result[1].err.text = "exec: start failed") =>
       /\ \A i \in 1..Len(procs) : procs[i].status = "exited" /\ procs[i].code = 0
       /\ result[1].finalSize = ""
       /\ m.state # stateDone

C9_Witness ==
  /\ m.state = stateError
  /\ Len(procs) = 2
  /\ procs[2].cmd.pass = 1 /\ procs[2].code # 0

(***************************************************************************)
(* C10.  A failed probe.                                                   *)
(***************************************************************************)
\* C10: once ffprobe has exited nonzero, no palette or encode subprocess
\* is launched, no temporary path (palette image, pass log) is made, no
\* file is written, the job returns an error and the model never enters
\* stateDone.
C10_FailedProbeFailsJob ==
  (Len(procs) >= 1 /\ procs[1].status = "exited" /\ procs[1].code # 0) =>
    /\ procs[1].stage = StageProbe
    /\ Len(procs) = 1
    /\ loc.paletteFile = "" /\ loc.passLog = ""
    /\ disk = {}
    /\ pc.stage = StageProbe
    /\ JobReturned => JobFailed
    /\ m.state # stateDone

C10_Witness ==
  /\ m.state = stateError
  /\ Len(procs) = 1 /\ procs[1].stage = StageProbe /\ procs[1].code # 0

(***************************************************************************)
(* C11.  One completion message, one binary outcome.                       *)
(***************************************************************************)
\* the outcome of the job as the model records it
Outcome ==
  <<m.state, m.err, m.outputFile, m.finalSize>>

\* C11: a started job returns at most one completion message (exactly one
\* once it has returned); handling it puts the model in stateDone with a
\* nil error and the output path and size of the message recorded, or in
\* stateError with the non-nil error of the message and no output recorded,
\* never in any other state; tea.Quit has then been returned, and no step
\* taken before the program ends changes the outcome.
C11_OneBinaryOutcome ==
  /\ [](/\ Len(result) <= 1
        /\ Len(doneInflight) <= 1
        /\ JobReturned <=> result # <<>>
        /\ doneInflight # <<>> => (doneInflight = result /\ m.state = stateProcessing)
        /\ (result # <<>> /\ doneInflight = <<>>) => m.state \in {stateDone, stateError}
        /\ m.state \in {stateDone, stateError} =>
             /\ result # <<>> /\ doneInflight = <<>>
             /\ quitMsg \/ quit
        /\ m.state = stateDone =>
             /\ result[1].err.text = errNil
             /\ m.err.text = errNil
             /\ m.outputFile = result[1].outputFile /\ m.outputFile # ""
             /\ m.finalSize = result[1].finalSize /\ m.finalSize # ""
        /\ m.state = stateError =>
             /\ result[1].err.text # errNil
             /\ m.err = result[1].err
             /\ m.outputFile = "" /\ m.finalSize = "")
  /\ [][m.state \in {stateDone, stateError} => Outcome' = Outcome]_vars

C11_Witness ==
  m.state = stateDone /\ quit /\ m.finalSize = "size MB" /\ ~cancelled

(***************************************************************************)
(* C12.  The bitrate formula.                                              *)
(***************************************************************************)
\* trunc(max(50*1024, (size*8388608/duration - A) * 0.95) / 1024) of the
\* numbers size > 0 and duration > 0, without rounding: the budget
\* size*8388608/duration is N/D for whole N and D, and the rate in kbit/s
\* is the whole part of 19 (N - A D) / (20 * 1024 D), or 50 if that is
\* more
RateExpected(size, duration, hasAudio) ==
  LET sh == size.e + 23 - duration.e
      N  == BShl(size.m, Max(0, sh))
      D  == BShl(duration.m, Max(0, -sh))
      AD == IF hasAudio THEN BShl(D, 17) ELSE <<>>
      q  == IF BCmp(N, AD) <= 0 THEN <<>>
            ELSE BDiv(BMulSmall(BSub(N, AD), 19), BShl(BMulSmall(D, 20), 10)).q
  IN  I64(FALSE, IF BCmp(q, BNat(50)) < 0 THEN BNat(50) ELSE q)

\* a number greater than 0 and not infinite
IsPositive(f) ==
  f.cls = "fin" /\ FLess(F0, f)

\* C12: for every size target > 0 and duration > 0 the resolved videoKBit is
\* trunc(max(50*1024, (size_MB*8388608/duration - A)*0.95) / 1024) with
\* A = 128*1024 when the input has an audio stream and 0 otherwise, and so
\* is never below 50.  The code rounds every step to a float64: 5 MB over
\* 19 s without audio are 2048 kbit/s, and the code resolves 2047.
C12_BitrateFormula ==
  (pc.step = "pre" /\ IsPositive(job.targetMB) /\ IsPositive(loc.duration)) =>
    /\ loc.videoKBit = RateExpected(job.targetMB, loc.duration, loc.hasAudio)
    /\ ILeq(GoInt(50), loc.videoKBit)

(***************************************************************************)
(* C13.  Size target with no usable duration.                              *)
(***************************************************************************)
\* C13: when a size target is set and the effective duration is <= 0, the
\* job is rejected or runs in quality mode: no command carries a -b:v
\* bitrate computed from that duration.  The code divides by the duration
\* without looking at it and passes int(+Inf) as the bitrate.
C13_NoBitrateFromNonPositiveDuration ==
  (SizeTargetSet /\ job.mode \in {modeVideo, modeAVIF} /\ pc.stage # StageProbe
     /\ ~FLess(F0, loc.duration)) =>
    \A i \in 1..Len(procs) : procs[i].cmd.bv = <<>>

(***************************************************************************)
(* C14.  Range of the progress fraction.                                   *)
(***************************************************************************)
\* C14: every sample sent by runFFmpeg has 0 <= progress <= 1, whatever the
\* value of out_time_us and the total duration.  The code only bounds the
\* fraction from above: a negative out_time_us gives a negative fraction.
C14_FractionWithinUnitInterval ==
  \A i \in 1..Len(sent) :
    /\ ~FLess(sent[i].progress, F0)
    /\ ~FLess(F1, sent[i].progress)

(***************************************************************************)
(* C15.  Monotonicity of the progress fraction.                            *)
(***************************************************************************)
\* C15: within one runFFmpeg call the fractions sent are non-decreasing,
\* whatever sequence of out_time_us values the subprocess reports.  The
\* code computes each fraction from its line alone.
C15_FractionsNonDecreasing ==
  \A i \in 1..(Len(sent) - 1) :
    ~FLess(sent[i + 1].progress, sent[i].progress)

(***************************************************************************)
(* C16.  ETA.                                                              *)
(***************************************************************************)
\* the messages runFFmpeg sends carry the label of the stage
SentByRunFFmpeg(msg) ==
  msg.line.text \in {StagePalette, StageGIF, StageAPNG, StageCRF, StagePass1, StagePass2,
                     StageGPU}

\* C16: a sample carries an ETA only when its fraction is strictly greater
\* than 0.01, and the placeholder "..." otherwise; every ETA published is
\* >= 0 (minutes >= 0, seconds in 0..59), for every elapsed time and
\* fraction.  No float64 is 0.01: the fractions greater than it are those
\* not below the float64 next to it.  The code multiplies the remaining
\* seconds by time.Second in an int64: a sample just over 0.01 read after
\* 10^8 s carries a negative ETA.
C16_EtaOnlyAboveNoiseFloorAndNonNegative ==
  \A i \in 1..Len(sent) :
    LET s == sent[i]
    IN  SentByRunFFmpeg(s) =>
          /\ s.line.eta \in {"eta", "..."}
          /\ s.line.eta = "eta" => FLeq(F001, s.progress)
          /\ FLess(s.progress, F001) => s.line.eta = "..."
          /\ ILeq(I0, s.line.mm) /\ ILeq(I0, s.line.ss) /\ ILess(s.line.ss, I60)
          /\ s.line.eta = "..." => (s.line.mm = I0 /\ s.line.ss = I0)

(***************************************************************************)
(* C17.  Pass count of GIF, APNG and AVIF jobs.                            *)
(***************************************************************************)
\* C17 as stated: a GIF, APNG or AVIF job never launches a command with
\* -pass, whatever the backend and the size target.  Refuted by an AVIF
\* job with a size target on the CPU backend, which runs pass 1 and pass 2.
C17_StillModesNeverTwoPass ==
  job.mode \in {modeGIF, modeAPNG, modeAVIF} =>
    \A i \in 1..Len(procs) : procs[i].cmd.pass = 0

\* C17 amended: a GIF or APNG job, with or without a size target, and an
\* AVIF job that is not (CPU backend with a size target) launch at most one
\* encode and no command with -pass or -passlogfile; an AVIF job on the CPU
\* backend with a size target that succeeds has run pass 1 then pass 2.
C17_GifApngSinglePassAvifLikeVideo ==
  /\ (JobStarted /\ (job.mode \in {modeGIF, modeAPNG}
                     \/ (job.mode = modeAVIF /\ ~(CpuBackend /\ SizeTargetSet)))) =>
       /\ Len(EncodeProcs) <= 1
       /\ \A i \in 1..Len(procs) : procs[i].cmd.pass = 0 /\ procs[i].cmd.passlogfile = ""
  /\ (JobSucceeded /\ job.mode = modeAVIF /\ CpuBackend /\ SizeTargetSet) => TwoPasses

C17_Witness ==
  JobSucceeded /\ job.mode = modeAPNG /\ SizeTargetSet /\ OnePass

(***************************************************************************)
(* C18.  Output missing after the last stage.                              *)
(***************************************************************************)
\* C18: when every stage has exited 0 but the output file does not exist
\* when finishWork looks at it, the job ends in Failed.  finishWork ignores
\* the error of os.Stat and returns err = nil with the size "Unknown".
C18_MissingOutputFailsJob ==
  (JobReturned /\ Len(procs) >= 2
     /\ (\A i \in 1..Len(procs) : procs[i].status = "exited" /\ procs[i].code = 0)
     /\ NextStage(LastProc.stage) = ""
     /\ outputFile(job) \notin disk) =>
    /\ JobFailed
    /\ m.state # stateDone

(***************************************************************************)
(* C19.  Probe document without a usable duration.                         *)
(***************************************************************************)
\* C19: when ffprobe exits 0 but its document cannot be parsed or has no
\* usable duration, the job fails before any palette or encode subprocess.
\* probeFile ignores the error of json.Unmarshal and startEncoding ignores
\* the error of ParseFloat: the job goes on with duration 0.
C19_UnusableProbeDocumentFailsJob ==
  (Len(procs) >= 1 /\ procs[1].stage = StageProbe /\ procs[1].status = "exited"
     /\ procs[1].code = 0 /\ ~ParseFloat(procs[1].doc.duration).ok) =>
    /\ Len(procs) = 1
    /\ pc.stage = StageProbe
    /\ JobReturned => JobFailed

(***************************************************************************)
(* C20.  What the error of a failed stage carries.                         *)
(***************************************************************************)
\* the texts an error value is made of
ErrParts(e) ==
  {e.text, e.log}

\* C20: the error with which a failed palette or encode stage ends the job
\* carries the label of the stage and the stderr text of the subprocess.
\* runFFmpeg formats the error of cmd.Wait and the stderr text only, and
\* startEncoding returns it as it is: no label.
C20_StageErrorCarriesLabelAndStderr ==
  \A i \in 1..Len(procs) :
    (JobReturned /\ procs[i].stage # StageProbe /\ procs[i].status = "exited"
       /\ procs[i].code # 0) =>
      /\ result[1].err.log = procs[i].stderr
      /\ procs[i].stage \in ErrParts(result[1].err)

(***************************************************************************)
(* C21.  Stage-level progress events.                                      *)
(***************************************************************************)
\* a stage-level event: a label, and no ETA part (not a sample of runFFmpeg)
IsStageEvent(msg) ==
  msg.line.text # "" /\ msg.line.eta = ""

StageEvents ==
  Cardinality({i \in 1..Len(sent) : IsStageEvent(sent[i])})

\* C21: every subprocess launch (probe, palette, every encode pass) is
\* preceded by a stage-level event of its own with a non-empty label: when
\* a launch is next there is one more such event than launches so far.  The
\* CRF, pass 1, pass 2 and GPU stages send only progressMsg{debugCmd: ...},
\* whose line is empty and whose progress is 0.
C21_StageEventBeforeEveryLaunch ==
  StageEvents >= Len(procs) + (IF pc.step = "start" THEN 1 ELSE 0)

(***************************************************************************)
(* C22.  The preset table of the README.                                   *)
(***************************************************************************)
\* README.md, "Encoder preset mapping": levels Fastest .. Best per column
ReadmePresets(lib) ==
  CASE lib = "libsvtav1"  -> <<"12", "10", "8", "6", "4">>
    [] lib = "librav1e"   -> <<"10", "8", "6", "4", "2">>
    [] lib = "libvpx-vp9" -> <<"8", "7", "6", "4", "1">>
    [] lib = "libaom-av1" -> <<"8", "7", "6", "4", "3">>
    [] lib \in {"libx264", "libx265"} ->
         <<"ultrafast", "veryfast", "faster", "medium", "veryslow">>
    [] lib \in {"h264_nvenc", "hevc_nvenc", "av1_nvenc"} ->
         <<"p1", "p2", "p4", "p6", "p7">>
    [] lib \in {"h264_amf", "hevc_amf"} ->
         <<"speed", "speed", "balanced", "quality", "quality">>
    [] lib = "av1_amf" ->
         <<"speed", "balanced", "quality", "high_quality", "high_quality">>
    [] lib \in {"h264_qsv", "hevc_qsv", "vp9_qsv", "av1_qsv"} ->
         <<"veryfast", "faster", "balanced", "slow", "veryslow">>

SpeedFlags ==
  {"-preset", "-speed", "-cpu-used", "-quality"}

\* the values of the speed flags of a command
SpeedTokens(cmd) ==
  {cmd.extra[k].s : k \in {j \in 1..Len(cmd.extra) : cmd.extra[j].flag \in SpeedFlags}}

IsCodecEncode(p) ==
  IsEncode(p) /\ job.mode \in {modeVideo, modeAVIF}

\* C22: the speed token of every encode command is the one the README
\* table lists for the codec family and the quality level.  For libx265 at
\* level 2 (Balanced) the code passes "fast", the README lists "faster".
C22_PresetTokensMatchReadme ==
  \A i \in 1..Len(procs) :
    IsCodecEncode(procs[i]) =>
      SpeedTokens(procs[i].cmd) = {ReadmePresets(job.codecCfg.FFmpegLib)[job.quality + 1]}

(***************************************************************************)
(* C23.  Every exposed pair has both mappings.                             *)
(***************************************************************************)
QualityFlags ==
  {"-crf", "-cq", "-qp_i", "-global_quality"}

\* the 5-element table of a codec: the README table, but for libx265
PresetTable(lib) ==
  IF lib = "libx265"
  THEN <<"ultrafast", "veryfast", "fast", "medium", "veryslow">>
  ELSE ReadmePresets(lib)

\* a constant-quality parameter that follows the CRF slider
HasQualityParam(cmd) ==
  \E k \in 1..Len(cmd.extra) :
    /\ cmd.extra[k].flag \in QualityFlags
    /\ cmd.extra[k].s = ""
    /\ cmd.extra[k].i >= 18 + job.crfSlider
    /\ cmd.extra[k].i <= 60 + 8 * job.crfSlider

\* C23: for every (backend, codec) pair of encoderMap and every quality
\* level, the encode command has exactly one speed token, the element of
\* the pair's table at the quality level, and in quality mode also a
\* constant-quality parameter that follows the CRF slider.
C23_EveryPairHasBothMappings ==
  \A i \in 1..Len(procs) :
    IsCodecEncode(procs[i]) =>
      /\ \E c \in 1..Len(encoderMap[job.hw]) : encoderMap[job.hw][c] = job.codecCfg
      /\ SpeedTokens(procs[i].cmd) = {PresetTable(job.codecCfg.FFmpegLib)[job.quality + 1]}
      /\ ~SizeTargetSet => HasQualityParam(procs[i].cmd)

C23_Witness ==
  /\ Len(procs) = 2 /\ procs[2].cmd.cv = "vp9_qsv"
  /\ job.quality = 4 /\ job.crfSlider = 10 /\ ~SizeTargetSet

(***************************************************************************)
(* C24.  Ranges of the sliders.                                            *)
(***************************************************************************)
\* C24: after any sequence of keys qualityLevel is in 0..4 and crfLevel in
\* 0..10, and the job is started with these values, so that quality indexes
\* every 5-element preset table within bounds.
C24_SlidersInRange ==
  /\ m.qualityLevel \in 0..4
  /\ m.crfLevel \in 0..10
  /\ JobStarted =>
       /\ job.quality = m.qualityLevel /\ job.crfSlider = m.crfLevel
       /\ job.quality + 1 \in 1..5

\* both sliders were moved to an end of their range before the job started
C24_Witness ==
  JobStarted /\ job.quality = 4 /\ job.crfSlider = 0

(***************************************************************************)
(* C25.  The divide-and-round-to-even scale filter.                        *)
(***************************************************************************)
SourceDims ==
  {1, 2, 3, 101, 720, 1080, 1280, 1920, 1980}

\* the filter chain of a command (-vf, or the first input's chain of -lavfi)
Chain(cmd) ==
  IF cmd.lavfi # <<>> THEN cmd.lavfi ELSE cmd.vf

\* the text is digits with at most one point among them
IsPlainDecimal(t) ==
  /\ \E i \in 1..Len(t) : IsDigit(t[i])
  /\ \A i \in 1..Len(t) : IsDigit(t[i]) \/ t[i] = "."
  /\ Cardinality({i \in 1..Len(t) : t[i] = "."}) <= 1

\* the number of digits after the point
DecimalPlaces(t) ==
  IF Contains(t, ".") THEN Len(t) - IndexOf(t, ".") ELSE 0

\* floor(dim/N/2)*2 for the number N > 0 a plain decimal text spells,
\* which is its digits over a power of ten
ScaleExpected(dim, t) ==
  ((dim * Pow(10, DecimalPlaces(t))) \div (2 * DigitsVal(SelectSeq(t, IsDigit)))) * 2

\* C25: for a resolution text that is a positive number N other than "1",
\* every palette and encode command scales by N: each dimension dim becomes
\* floor(dim/N/2)*2, which is even and at most dim/N; N = 2 maps 1280x720
\* to 640x360 and N = 3 maps 101 to 32.  The filter computes the quotient
\* in float64: with N = 1.1 a width of 1980 becomes 1798, not 1800.
C25_ScaleDividesAndRoundsToEven ==
  LET t  == TrimSpace(job.resInput)
      pf == ParseFloat(t)
  IN  \A i \in 2..Len(procs) :
        (pf.ok /\ FLess(F0, pf.val) /\ t # <<"1">>) =>
          LET head == Chain(procs[i].cmd)[1]
              N    == head.num
          IN  /\ head.name = "scale-div"
              /\ N = pf.val
              /\ IsPlainDecimal(t) =>
                   \A dim \in SourceDims :
                     /\ ScaleExpr(dim, N) = FInt(ScaleExpected(dim, t))
                     /\ ScaleExpected(dim, t) % 2 = 0
                     /\ ScaleExpected(dim, t) * DigitsVal(SelectSeq(t, IsDigit))
                          <= dim * Pow(10, DecimalPlaces(t))
              /\ t = <<"2">> => (ScaleExpr(1280, N) = FInt(640) /\ ScaleExpr(720, N) = FInt(360))
              /\ t = <<"3">> => ScaleExpr(101, N) = FInt(32)

(***************************************************************************)
(* C26.  Classification of the resolution text.                            *)
(***************************************************************************)
\* the scale filters of a chain
ScalePart(cmd) ==
  SelectSeq(Chain(cmd), LAMBDA f : f.name \in {"scale-div", "scale-wh"})

\* C26: the trimmed text is classified in this order: empty or "1", no
\* filter; a positive number, the divide filter; a text with "x" or ":",
\* the width:height filter with every "x" replaced by ":"; anything else
\* (zero and negative numbers included), no filter, and the job goes on.
C26_ScaleTextClassification ==
  LET t  == TrimSpace(job.resInput)
      pf == ParseFloat(t)
  IN  \A i \in 2..Len(procs) :
        ScalePart(procs[i].cmd) =
          IF t = <<>> \/ t = <<"1">> THEN <<>>
          ELSE IF pf.ok /\ FLess(F0, pf.val)
            THEN <<Filter("scale-div", pf.val, <<>>)>>
          ELSE IF \E k \in 1..Len(t) : t[k] \in {"x", ":"}
            THEN <<Filter("scale-wh", F0,
                          [k \in 1..Len(t) |-> IF t[k] = "x" THEN ":" ELSE t[k]])>>
          ELSE <<>>

C26_Witness ==
  /\ Len(procs) = 2 /\ job.resInput = <<"1","2","8","0","x","7","2","0">>
  /\ ScalePart(procs[2].cmd) =
       <<Filter("scale-wh", F0, <<"1","2","8","0",":","7","2","0">>)>>

(***************************************************************************)
(* C27.  No bitrate in quality mode.                                       *)
(***************************************************************************)
\* C27: with no size target, for every backend and codec, no bitrate is
\* computed (videoKBit stays 0) and no command carries "-b:v <N>k",
\* -maxrate or -bufsize; the only -b:v is the constant "-b:v 0" of VP9; the
\* encode command of a codec carries a constant-quality parameter and one
\* speed token.
C27_QualityModeHasNoBitrate ==
  ~SizeTargetSet =>
    /\ loc.videoKBit = I0
    /\ \A i \in 1..Len(procs) :
         LET cmd == procs[i].cmd
         IN  /\ cmd.bv = <<>> /\ cmd.maxrate = <<>> /\ cmd.bufsize = <<>>
             /\ \A k \in 1..Len(cmd.extra) :
                  cmd.extra[k].flag \in {"-b:v", "-maxrate", "-bufsize"} =>
                    (cmd.extra[k].flag = "-b:v" /\ cmd.extra[k].s = "0"
                       /\ cmd.cv = "libvpx-vp9")
             /\ IsCodecEncode(procs[i]) =>
                  (HasQualityParam(cmd) /\ Cardinality(SpeedTokens(cmd)) = 1)

C27_Witness ==
  /\ Len(procs) = 2 /\ procs[2].cmd.cv = "hevc_nvenc" /\ procs[2].cmd.hwaccel
  /\ ~SizeTargetSet /\ job.crfSlider = 0

(***************************************************************************)
(* C28.  Lines that are not elapsed-time lines.                            *)
(***************************************************************************)
\* exactly "out_time_us=<value>": one "=", after the key
IsElapsedLine(line) ==
  /\ Len(line) >= Len(OutTimeKey) + 1
  /\ SubSeq(line, 1, Len(OutTimeKey) + 1) = OutTimeKey \o <<"=">>
  /\ Cardinality({i \in 1..Len(line) : line[i] = "="}) = 1

\* C28: reading a line that is not "out_time_us=<value>" (another key, no
\* "=", or more than one "=") sends nothing, leaves the stage scanning,
\* returns nothing and leaves the subprocess alone; only the line count
\* moves.  A line of 65536 bytes or more is such a line, and the scanner
\* stops on it: the stage reads no further line.
C28_OtherLinesAreIgnored ==
  [][\A line \in MonitorLines, elapsed \in MonitorElapsed :
       (~IsElapsedLine(line) /\ ScanLine(line, elapsed)) =>
         /\ pc' = pc
         /\ loc' = [loc EXCEPT !.lines = @ + 1, !.pending = <<>>]
         /\ sent' = sent /\ progInflight' = progInflight
         /\ procs' = procs
         /\ result' = result /\ doneInflight' = doneInflight /\ closed' = closed]_vars

(***************************************************************************)
(* C29.  The palette stage.                                                *)
(***************************************************************************)
\* the filters of a chain before its last one
ChainPrefix(chain) ==
  SubSeq(chain, 1, Len(chain) - 1)

\* C29: a palette subprocess is launched exactly in GIF mode, as the second
\* subprocess, after the probe; the GIF encode is the third, launched after
\* the palette process exited 0, with the palette file as its second input;
\* the -vf chain of the palette ends in palettegen, the -lavfi graph of the
\* encode ends in paletteuse, and the two have the same filters before.
C29_PaletteStageOnlyAndFirstForGif ==
  /\ \A i \in 1..Len(procs) :
       procs[i].stage = StagePalette =>
         /\ job.mode = modeGIF /\ i = 2 /\ procs[1].stage = StageProbe
         /\ procs[1].status = "exited" /\ procs[1].code = 0
  /\ (job.mode = modeGIF /\ Len(procs) >= 2) => procs[2].stage = StagePalette
  /\ \A i \in 1..Len(procs) :
       procs[i].stage = StageGIF =>
         /\ i = 3 /\ procs[2].stage = StagePalette
         /\ procs[2].status = "exited" /\ procs[2].code = 0
         /\ procs[3].cmd.inputs = <<"input", procs[2].cmd.out>>
         /\ procs[2].cmd.out = PaletteFile
         /\ procs[2].cmd.vf[Len(procs[2].cmd.vf)].name = "palettegen"
         /\ procs[3].cmd.lavfi[Len(procs[3].cmd.lavfi)].name = "paletteuse"
         /\ ChainPrefix(procs[2].cmd.vf) = ChainPrefix(procs[3].cmd.lavfi)
         /\ ChainPrefix(procs[2].cmd.vf) = FilterChain(job.resInput, job.fpsInput)
  /\ (JobSucceeded /\ job.mode = modeGIF) => (Len(procs) = 3 /\ procs[3].stage = StageGIF)

C29_Witness ==
  /\ JobSucceeded /\ job.mode = modeGIF /\ job.resInput = <<"2">>
  /\ Len(procs) = 3 /\ Len(procs[3].cmd.lavfi) >= 3

(***************************************************************************)
(* C30.  One job per program run.                                          *)
(***************************************************************************)
\* the fields of the model that make the job configuration
JobConfig(mm) ==
  <<mm.filePath, mm.targetSizeMB, mm.targetRes, mm.targetFPS, mm.trimStart, mm.trimEnd,
    mm.customOut, mm.outputMode, mm.selectedHW, mm.selectedCodec, mm.crfLevel,
    mm.qualityLevel>>

JobStates ==
  {stateProcessing, stateDone, stateError}

\* C30: the job is started exactly on the transition into stateProcessing
\* and at most once (one probe at most); from then on no step changes the
\* job, the configuration fields or the typed text, and the wizard state
\* changes only when the completion message is handled.
C30_AtMostOneJob ==
  /\ [](JobStarted <=> m.state \in JobStates)
  /\ [](Cardinality({i \in 1..Len(procs) : procs[i].stage = StageProbe}) <= 1)
  /\ [][m.state \in JobStates =>
          /\ job' = job
          /\ JobConfig(m') = JobConfig(m)
          /\ textInput' = textInput
          /\ m'.state \in JobStates
          /\ m'.state # m.state =>
               (m.state = stateProcessing /\ doneInflight # <<>> /\ doneInflight' = <<>>)]_vars

C30_Witness ==
  m.state = stateProcessing /\ Len(procs) >= 2 /\ Len(handled) >= 2 /\ ~quit

(***************************************************************************)
(* C31.  The close of the progress channel.                                *)
(***************************************************************************)
\* the steps of startEncoding and runFFmpeg that send on progressChan
SendSteps ==
  {"analyzing", "pre", "sample"}

\* C31: the progress channel is closed exactly when startEncoding has
\* returned, whatever the exit path, and by that step alone; it is never
\* closed while the pipeline stands at a send, nothing is sent once it is
\* closed, it is not closed again or reopened, and the receive that
\* observes the close is the last: no receive is outstanding and no
\* progress message is pending from then on.
C31_ClosedOnceAfterLastSend ==
  /\ [](closed <=> JobReturned)
  /\ [](pc.step \in SendSteps => ~closed)
  /\ [][/\ closed' # closed => (~closed /\ ~JobReturned /\ JobReturned')
        /\ closed => (closed' /\ sent' = sent /\ pc' = pc)
        /\ (closed /\ armed' < armed) => (armed' = 0 /\ progInflight' = <<>>)
        /\ (closed /\ armed = 0 /\ progInflight = <<>>) =>
             (armed' = 0 /\ progInflight' = <<>>)]_vars

\* a job failed at the probe, its channel is closed and the consumer has
\* observed the close after handling the one message sent
C31_Witness ==
  /\ closed /\ JobFailed /\ Len(procs) = 1 /\ armed = 0 /\ progInflight = <<>>
  /\ Len(handled) = 1 /\ handled = sent

(***************************************************************************)
(* C32.  One consumer of the progress channel.                             *)
(***************************************************************************)
\* receives issued since the job started: the one of the start and one
\* for each progress message handled
ReceivesIssued ==
  1 + Len(handled)

\* C32: before the job starts no receive is outstanding; from its start
\* at most one is, at every moment: one is armed with the job, and the
\* receives outstanding are those issued (one at the start, one for each
\* progress message handled) less those completed by a send, and less the
\* one that observes the close.
C32_OneOutstandingReceive ==
  /\ ~JobStarted => armed = 0
  /\ JobStarted =>
       /\ armed \in {0, 1}
       /\ armed + Len(progInflight) <= 1
       /\ pc.step = "analyzing" => armed = 1
       /\ ~closed => armed = ReceivesIssued - Len(sent)
       /\ closed => armed \in {ReceivesIssued - Len(sent), ReceivesIssued - Len(sent) - 1}

\* the job is processing, two progress messages were handled and the
\* receive re-armed after the second is outstanding
C32_Witness ==
  m.state = stateProcessing /\ ~closed /\ Len(handled) = 2 /\ armed = 1 /\ Len(procs) = 1

(***************************************************************************)
(* C33.  Every started job ends.                                           *)
(***************************************************************************)
\* C33: under fair scheduling of the pipeline, the subprocesses and the
\* message handlers, a started job that is not cancelled by Ctrl-C or Esc
\* eventually returns from startEncoding (no send on the progress channel
\* blocks forever), and its completion message is eventually handled: the
\* wizard reaches stateDone or stateError.
C33_StartedJobEnds ==
  /\ (JobStarted /\ pc.step \in SendSteps) ~> (pc.step \notin SendSteps \/ JobReturned \/ cancelled)
  /\ JobStarted ~> (JobReturned \/ cancelled)
  /\ (m.state = stateProcessing) ~> (m.state \in {stateDone, stateError} \/ cancelled)

\* a two-pass job ran to its end through sends of both passes and its
\* completion message was handled
C33_Witness ==
  /\ m.state = stateDone /\ TwoPasses /\ Len(handled) >= 5 /\ ~cancelled

(***************************************************************************)
(* C34.  The list cursors stay inside their lists.                         *)
(***************************************************************************)
\* the codecs offered for the backend under the cursor
OfferedCodecs ==
  CodecOptions(hardwareOptions[m.selectedHW + 1], m.outputMode)

\* C34: at the codec, CRF and quality steps the backend cursor is an index
\* of hardwareOptions and the codec cursor is an index of the codecs
\* offered for that backend (the AV1 ones in AVIF mode); the job started
\* from the quality step was given the backend and the codec under the
\* cursors.
C34_CursorsInRange ==
  /\ m.state \in {stateSelectHW, stateSelectCodec, stateSelectCRF, stateSelectQuality} =>
       (0 <= m.selectedHW /\ m.selectedHW < Len(hardwareOptions))
  /\ m.state \in {stateSelectCodec, stateSelectCRF, stateSelectQuality} =>
       (0 <= m.selectedCodec /\ m.selectedCodec < Len(OfferedCodecs))
  /\ (m.state = stateProcessing /\ m.outputMode \in {modeVideo, modeAVIF}) =>
       /\ 0 <= m.selectedHW /\ m.selectedHW < Len(hardwareOptions)
       /\ 0 <= m.selectedCodec /\ m.selectedCodec < Len(OfferedCodecs)
       /\ job.hw = hardwareOptions[m.selectedHW + 1]
       /\ job.codecCfg = OfferedCodecs[m.selectedCodec + 1]

\* an AVIF job was started with the last of the three AV1 codecs of the
\* CPU backend, the sixth codec of the unfiltered list being out of reach
C34_Witness ==
  /\ m.state = stateProcessing /\ m.outputMode = modeAVIF /\ m.selectedHW = 0
  /\ m.selectedCodec = 2 /\ Len(OfferedCodecs) = 3 /\ job.codecCfg.FFmpegLib = "librav1e"

(***************************************************************************)
(* C35.  The constant-quality number of each codec family.                 *)
(***************************************************************************)
\* the stated range of a family and its slope num/den per slider step
CqFamily(hw, lib) ==
  IF hw # hwCPU                            THEN [lo |-> 19, hi |-> 34,  num |-> 3, den |-> 2]
  ELSE IF lib = "libvpx-vp9"               THEN [lo |-> 20, hi |-> 45,  num |-> 5, den |-> 2]
  ELSE IF lib \in {"libaom-av1", "libsvtav1"} THEN [lo |-> 20, hi |-> 50, num |-> 3, den |-> 1]
  ELSE IF lib = "librav1e"                 THEN [lo |-> 60, hi |-> 140, num |-> 8, den |-> 1]
  ELSE IF lib = "libx264"                  THEN [lo |-> 18, hi |-> 33,  num |-> 3, den |-> 2]
  ELSE                                          [lo |-> 20, hi |-> 36,  num |-> 8, den |-> 5]

\* the constant-quality numbers a command carries
CqNumbers(cmd) ==
  {cmd.extra[k].i :
     k \in {j \in 1..Len(cmd.extra) :
              cmd.extra[j].flag \in QualityFlags \cup {"-qp_p"} /\ cmd.extra[j].s = ""}}

\* C35: in quality mode the encode command of every codec carries one
\* constant-quality number: lo + trunc(s * num / den) for CRF level s and
\* the range lo..hi and slope of its family (VP9 20..45 by 2.5, AOM and SVT
\* 20..50 by 3, rav1e 60..140 by 8, x264 18..33 by 1.5, x265 20..36 by 1.6,
\* hardware 19..34 by 1.5); it lies in lo..hi, is lo at s = 0 and hi at
\* s = 10, and no lower level yields a greater number.
C35_ConstantQualityInFamilyRange ==
  \A i \in 1..Len(procs) :
    (IsCodecEncode(procs[i]) /\ ~SizeTargetSet) =>
      LET cmd == procs[i].cmd
          f   == CqFamily(job.hw, cmd.cv)
          s   == job.crfSlider
          v   == f.lo + (s * f.num) \div f.den
      IN  /\ s \in 0..10
          /\ CqNumbers(cmd) = {v}
          /\ f.lo <= v /\ v <= f.hi
          /\ s = 0 => v = f.lo
          /\ s = 10 => v = f.hi
          /\ \A s2 \in 0..s :
               \A v2 \in CqNumbers(StageCmd([job EXCEPT !.crfSlider = s2], loc,
                                            procs[i].stage)) : v2 <= v

\* libx265 at CRF level 7: 20 + trunc(11.2) = 31
C35_Witness ==
  /\ Len(procs) = 2 /\ procs[2].cmd.cv = "libx265" /\ ~SizeTargetSet
  /\ job.crfSlider = 7 /\ CqNumbers(procs[2].cmd) = {31}

(***************************************************************************)
(* C36.  The audio allocation and the audio track of the output.           *)
(***************************************************************************)
\* the stages whose subprocess writes the output of a video or AVIF job
FinalStages ==
  {StageCRF, StagePass2, StageGPU}

\* C36: for a video or AVIF job with a size target and a positive
\* duration, the bitrate of the final encode is the budget less 128 kbit/s
\* of audio exactly when that command encodes an audio track (its audio
\* arguments are not "-an").  Refuted by an AVIF job on an input with an
\* audio stream: the command carries "-an" and the allocation is deducted.
C36_AudioDeductedIffAudioEncoded ==
  \A i \in 1..Len(procs) :
    (/\ procs[i].stage \in FinalStages
     /\ job.mode \in {modeVideo, modeAVIF}
     /\ SizeTargetSet
     /\ IsPositive(loc.duration)) =>
      procs[i].cmd.bv =
        <<RateExpected(job.targetMB, loc.duration, procs[i].cmd.audio # <<"-an">>)>>

(***************************************************************************)
(* C37.  Validation at the size step.                                      *)
(***************************************************************************)
\* the text spells a number: it parses, and not to NaN
IsNumberText(t) ==
  ParseFloat(t).ok /\ ~IsNaN(ParseFloat(t).val)

\* C37: Enter at the size step launches nothing and starts no job; with
\* empty text it selects quality mode (targetSizeMB = 0), with a number
\* greater than 0 it sets the target, both moving to the resolution step
\* with the error cleared and the text reset; with any other text (not a
\* number, or a number <= 0) it stays at the size step, leaves targetSizeMB
\* and the text alone and sets the error "invalid size".  Refuted by the
\* text "NaN": it is accepted and NaN becomes the size target.
C37_SizeStepValidates ==
  [][UpdateInputSizeEnter =>
       LET size    == ParseFloat(textInput)
           advance(v) == /\ m' = [m EXCEPT !.targetSizeMB = v, !.state = stateInputRes,
                                           !.err = NilErr]
                         /\ textInput' = <<>>
       IN  /\ procs' = procs /\ job' = job /\ pc' = pc
           /\ IF textInput = <<>> THEN advance(F0)
              ELSE IF IsNumberText(textInput) /\ FLess(F0, size.val)
              THEN advance(size.val)
              ELSE /\ m' = [m EXCEPT !.err = Err("invalid size", 0, "")]
                   /\ textInput' = textInput]_vars

(***************************************************************************)
(* C38.  The trim range: duration and arguments.                           *)
(***************************************************************************)
\* the seconds a trim bound of TrimPairs stands for: H:M:S is
\* 3600 H + 60 M + S, M:S is 60 M + S, a trailing "s" is ignored
TrimSeconds(t) ==
  IF t = <<"1","s">> THEN FInt(1)
  ELSE IF t = <<"5","s">> THEN FInt(5)
  ELSE IF t = <<"2">> THEN FInt(2)
  ELSE IF t = <<"0","0",":","0","1",":","0","0">> THEN FInt(60)
  ELSE IF t = <<"0","0",":","0","2",":","0","0">> THEN FInt(120)
  ELSE IF t = <<"1",":","3","0">> THEN FInt(90)
  ELSE IF t = <<"2",":","0","0">> THEN FInt(120)
  ELSE IF t = <<"1",".","2">> THEN FDiv(FInt(12), FInt(10))
  ELSE IF t = <<"2",".","2">> THEN FDiv(FInt(22), FInt(10))
  ELSE IF t = <<"0","1",":","0","0",":","0","0">> THEN FInt(3600)
  ELSE IF t = <<"0","1",":","0","1",":","0","0">> THEN FInt(3660)
  ELSE IF t = <<"1",":","0","1",":","0","1",".","5">> THEN FDiv(FInt(7323), FInt(2))
  ELSE IF t = <<"1",":","0","1",":","0","3">> THEN FInt(3663)
  ELSE F0

BothTrimBounds ==
  job.trimStart # <<>> /\ job.trimEnd # <<>>

\* end - start when both bounds are given and end > start, else the
\* duration ffprobe reported; the difference of two float64 is the
\* float64 next to it
TrimmedDuration ==
  LET s == TrimSeconds(job.trimStart)
      e == TrimSeconds(job.trimEnd)
  IN  IF BothTrimBounds /\ FLess(s, e) THEN FSub(e, s)
      ELSE ParseFloat(procs[1].doc.duration).val

\* C38: every palette and encode command carries -ss start -to end exactly
\* when both bounds are non-empty; once the probe succeeded the duration
\* of the job is end - start when both bounds are given and end > start,
\* and the probed duration otherwise; the bitrate of a sized video job and
\* the fraction of every progress sample are computed from that duration.
C38_TrimDurationAndArguments ==
  /\ \A i \in 1..Len(procs) :
       procs[i].stage # StageProbe =>
         procs[i].cmd.trim =
           (IF BothTrimBounds THEN <<job.trimStart, job.trimEnd>> ELSE <<>>)
  /\ (JobStarted /\ pc.stage # StageProbe) =>
       /\ loc.duration = TrimmedDuration
       /\ (SizeTargetSet /\ job.mode = modeVideo) =>
            loc.videoKBit \in VideoKBits(job, TrimmedDuration, loc.hasAudio)
       /\ \A k \in 1..Len(sent) :
            sent[k].line.eta # "" =>
              sent[k].progress = Pct(FInt(5000000), TrimmedDuration)

\* -trim 01:00:00 01:01:00 on a two-pass job: both passes carry the range
\* and a sample at 5 s of 60 s has the fraction 1/12
C38_Witness ==
  /\ TwoPasses /\ JobSucceeded /\ job.trimStart = <<"0","1",":","0","0",":","0","0">>
  /\ loc.duration = FInt(60)
  /\ EncodeProcs[1].cmd.trim = EncodeProcs[2].cmd.trim /\ Len(EncodeProcs[2].cmd.trim) = 2
  /\ \E k \in 1..Len(sent) :
       sent[k].line.eta # "" /\ sent[k].progress = FDiv(FInt(1), FInt(12))

(***************************************************************************)
(* C39.  The order of the filter chain.                                    *)
(***************************************************************************)
\* the chain of a command without the palette filter that ends it
ChainBody(cmd) ==
  LET c == Chain(cmd)
  IN  IF c # <<>> /\ c[Len(c)].name \in {"palettegen", "paletteuse"}
      THEN ChainPrefix(c) ELSE c

\* C39: in every output mode the chain of every palette and encode command
\* holds the duplicate-frame-removal filter exactly once; before it stands
\* the scale filter the resolution text yields and nothing else, nothing
\* when it yields none; after it stands the fps filter with the typed
\* value when the fps text is not empty, and nothing when it is.
C39_ChainOrder ==
  \A i \in 1..Len(procs) :
    procs[i].stage # StageProbe =>
      LET c  == ChainBody(procs[i].cmd)
          ks == {k \in 1..Len(c) : c[k].name = "mpdecimate"}
      IN  /\ Cardinality(ks) = 1
          /\ \A k \in ks :
               /\ SubSeq(c, 1, k - 1) = buildScaleFilter(job.resInput)
               /\ k \in {1, 2}
               /\ \A j \in 1..(k - 1) : c[j].name \in {"scale-div", "scale-wh"}
               /\ SubSeq(c, k + 1, Len(c)) =
                    (IF job.fpsInput # <<>>
                       THEN <<Filter("fps", F0, job.fpsInput)>> ELSE <<>>)

\* an APNG encode with a resolution text and an fps text: three filters
C39_Witness ==
  /\ Len(procs) = 2 /\ procs[2].stage = StageAPNG /\ Len(procs[2].cmd.vf) = 3
  /\ procs[2].cmd.vf[1].name = "scale-div" /\ procs[2].cmd.vf[3].name = "fps"

====
